---- MODULE Spec2Model ----
(***************************************************************************)
(* A model of the NES core of kapifuji/nes_by_rust: the PPU scanline       *)
(* cursor and NMI latch (ppu.rs), the bus that routes CPU accesses and     *)
(* ticks the PPU (bus.rs), and the CPU execution loop with its NMI         *)
(* service (cpu.rs, opcode.rs).                                            *)
(*                                                                         *)
(* Rust integer arithmetic that overflows panics in a debug build and      *)
(* wraps in a release build; the variable build records which of the two   *)
(* the program was compiled as, and both are explored.                     *)
(***************************************************************************)
EXTENDS Integers, Sequences, FiniteSets, TLC

VARIABLES
    register,   \* Cpu.register: a, x, y, p, sp, pc
    bus,        \* Cpu.bus: wram, ppu, cycles
    fatal,      \* "none", or the panic that ended the program
    elapsed,    \* history: PPU cycles handed to Ppu::tick so far
    frames,     \* history: number of Ppu::tick calls that returned true
    callbacks,  \* history: number of frame-callback invocations made by Bus::tick
    cart,       \* the cartridge the machine was built from (never changes)
    build,      \* "debug" or "release" (never changes)
    at,         \* position of run_with_callback inside its loop body
    ret,        \* history: <<b>> when the last step polled the NMI and got b, else << >>
    step,       \* history: what the current loop iteration has done so far, and
                \* (step.last) the opcode fetched last and the registers before it,
                \* (step.entry) the registers before the NMI serviced last
    call        \* history: the call the host made in the last step, and what it returned

vars ==
    <<register, bus, fatal, elapsed, frames, callbacks, cart, build, at, ret, step, call>>

----------------------------------------------------------------------------
(* Bounds of the model.                                                    *)

\* Bus.tick arguments the host-level specification draws from.
TickArgs == {0, 85, 86}

\* The host-level specification stops ticking after this many CPU cycles
\* (one frame is 29781 CPU cycles).
MaxBusCycles == 29900

\* How many wrapped (release build) u8 multiplications a run may contain.
MaxWraps == 1

\* The execution loop stops after this many CPU cycles.
MaxLoopCycles == 120

\* How many memory calls the host makes in a run of the memory-map specification.
MaxCalls == 3

\* How many times the host resets the CPU in a run.
MaxResets == 1

\* How many PPU address and data port calls the host makes in a run.
MaxPortCalls == 4

----------------------------------------------------------------------------
(* Bytes, words and bits.                                                  *)

BIT0 == 1
BIT1 == 2
BIT2 == 4
BIT3 == 8
BIT4 == 16
BIT5 == 32
BIT6 == 64
BIT7 == 128

Pow2(i) == 2 ^ i

\* bit i of v
Bit(v, i) == (v \div Pow2(i)) % 2

\* v & w, v | w on 16-bit values
BitAnd(v, w) ==
    LET F[i \in 0..16] ==
            IF i = 16 THEN 0 ELSE Pow2(i) * (Bit(v, i) * Bit(w, i)) + F[i + 1]
    IN  F[0]

BitOr(v, w) == v + w - BitAnd(v, w)

\* v & !mask on a byte
BitClear(v, mask) == v - BitAnd(v, mask)

\* A zero-initialised array, kept as the finite map of the cells written so far.
Zeroed == [i \in {} |-> 0]

Get(f, i) == IF i \in DOMAIN f THEN f[i] ELSE 0

Put(f, i, v) == [j \in (DOMAIN f) \cup {i} |-> IF j = i THEN v ELSE f[j]]

----------------------------------------------------------------------------
(* ppu.rs                                                                  *)

ControlRegisterDefault ==
    [nametable |-> 0,
     vram_add_increment |-> FALSE,
     sprite_pattern_address |-> FALSE,
     background_pattern_address |-> FALSE,
     sprite_size |-> FALSE,
     master_lave_select |-> FALSE,
     generate_nmi |-> FALSE]

\* ControlRegister::update
ControlRegisterUpdate(data) ==
    [nametable |-> BitAnd(data, BIT0 + BIT1),
     vram_add_increment |-> BitAnd(data, BIT2) = BIT2,
     sprite_pattern_address |-> BitAnd(data, BIT3) = BIT3,
     background_pattern_address |-> BitAnd(data, BIT4) = BIT4,
     sprite_size |-> BitAnd(data, BIT5) = BIT5,
     master_lave_select |-> BitAnd(data, BIT6) = BIT6,
     generate_nmi |-> BitAnd(data, BIT7) = BIT7]

\* ControlRegister::vram_address_increment
VramAddressIncrement(c) == IF ~c.vram_add_increment THEN 1 ELSE 32

AddressRegisterNew == [value_high |-> 0, value_low |-> 0, hi_ptr |-> TRUE]

\* AddressRegister::get
AddressGet(r) == r.value_high * 256 + r.value_low

\* AddressRegister::set
AddressSet(r, data) ==
    [r EXCEPT !.value_high = data \div 256, !.value_low = data % 256]

\* The 14-bit mirroring applied by update and increment.
AddressMirror(r) ==
    IF AddressGet(r) > 16383 THEN AddressSet(r, BitAnd(AddressGet(r), 16383)) ELSE r

\* AddressRegister::update
AddressUpdate(r, data) ==
    LET r1 == IF r.hi_ptr THEN [r EXCEPT !.value_high = data]
                          ELSE [r EXCEPT !.value_low = data]
        r2 == AddressMirror(r1)
    IN  [r2 EXCEPT !.hi_ptr = ~r.hi_ptr]

\* Variant of AddressIncrement: the low byte wraps without a carry.
AddressIncrementNoCarry(r, inc) ==
    AddressMirror([r EXCEPT !.value_low = (@ + inc) % 256])

\* AddressRegister::increment
AddressIncrement(r, inc) ==
    LET lo == r.value_low
        nl == (lo + inc) % 256
        r1 == [r EXCEPT !.value_low = nl,
                        !.value_high = IF lo > nl THEN (@ + 1) % 256 ELSE @]
    IN  AddressMirror(r1)

\* Ppu::new
PpuNew(chr, mirroring) ==
    [charactor_rom |-> Zeroed,
     charactor_len |-> chr,
     palette_table |-> Zeroed,
     vram |-> Zeroed,
     oam_data |-> Zeroed,
     mirroring |-> mirroring,
     ppu_control |-> ControlRegisterDefault,
     vertical_blank |-> FALSE,
     ppu_address |-> AddressRegisterNew,
     internal_data_buf |-> 0,
     scanline |-> 0,
     cycles |-> 0,
     nmi_interrupt |-> FALSE]

DotsPerScanline == 341

VblankScanline == 241

ScanlinesPerFrame == 262

\* Variant of VblankStart: the latch is raised without status.vblank.
VblankStartLatchOnly(p) ==
    [p EXCEPT !.nmi_interrupt = IF p.ppu_control.generate_nmi THEN TRUE ELSE @]

\* Ppu::tick, `if self.scanline == 241 { .. }`: vblank starts, NMI is latched if enabled.
VblankStartAlwaysNmi(p) ==
    [p EXCEPT !.vertical_blank = TRUE, !.nmi_interrupt = TRUE]

VblankStart(p) ==
    [p EXCEPT !.vertical_blank = TRUE,
              !.nmi_interrupt = IF p.ppu_control.generate_nmi THEN TRUE ELSE @]

\* Ppu::tick, `if self.scanline >= 262 { .. }`: the frame ends.
FrameEndKeepsLatch(p) ==
    [p EXCEPT !.scanline = 0, !.vertical_blank = FALSE]

FrameEnd(p) ==
    [p EXCEPT !.scanline = 0, !.nmi_interrupt = FALSE, !.vertical_blank = FALSE]

\* Ppu::tick after `self.scanline += 1`.
NextScanline(p) ==
    LET Finish(q) ==
            IF q.scanline >= ScanlinesPerFrame
            THEN [ppu |-> FrameEnd(q), frame |-> TRUE]
            ELSE [ppu |-> q, frame |-> FALSE]
    IN  Finish(IF p.scanline = VblankScanline THEN VblankStart(p) ELSE p)

\* The scanline test of Ppu::tick written with > in place of >=.
ScanlineDoneStrict(c) == c > DotsPerScanline

\* Ppu::tick, `if self.cycles >= 341`
ScanlineDone(c) == c >= DotsPerScanline

\* Ppu::tick: the PPU after the call, and the value the call returns.
PpuTick(p, k) ==
    IF ScanlineDone(p.cycles + k)
    THEN NextScanline([p EXCEPT !.cycles = p.cycles + k - DotsPerScanline,
                                !.scanline = @ + 1])
    ELSE [ppu |-> [p EXCEPT !.cycles = p.cycles + k], frame |-> FALSE]

\* Ppu::poll_nmi_status
PpuPollNmiStatus(p) == p.ppu_control.generate_nmi

\* Ppu::poll_nmi_interrupt
PpuPollNmiInterrupt(p) == p.nmi_interrupt

\* write_to_control without its test of status.vblank.
WriteToControlAnyTime(p, value) ==
    LET before_nmi_status == p.ppu_control.generate_nmi
        p1 == [p EXCEPT !.ppu_control = ControlRegisterUpdate(value)]
    IN  IF ~before_nmi_status /\ p1.ppu_control.generate_nmi
        THEN [p1 EXCEPT !.nmi_interrupt = TRUE]
        ELSE p1

\* Ppu::write_to_control
WriteToControl(p, value) ==
    LET before_nmi_status == p.ppu_control.generate_nmi
        p1 == [p EXCEPT !.ppu_control = ControlRegisterUpdate(value)]
    IN  IF ~before_nmi_status /\ p1.ppu_control.generate_nmi /\ p1.vertical_blank
        THEN [p1 EXCEPT !.nmi_interrupt = TRUE]
        ELSE p1

\* Ppu::write_to_ppu_address
WriteToPpuAddress(p, value) ==
    [p EXCEPT !.ppu_address = AddressUpdate(@, value)]

\* Ppu::increment_vram_address
IncrementVramAddress(p) ==
    [p EXCEPT !.ppu_address = AddressIncrement(@, VramAddressIncrement(p.ppu_control))]

\* Ppu::mirror_vram_address
MirrorVramAddress(p, address) ==
    LET mirrored_vram == BitAnd(address, 12287)
        vram_index == mirrored_vram - 8192
        name_table == vram_index \div 1024
    IN  CASE p.mirroring = "Vertical" /\ name_table \in {2, 3} -> vram_index - 2048
          [] p.mirroring = "Horizontal" /\ name_table = 2 -> vram_index - 1024
          [] p.mirroring = "Horizontal" /\ name_table = 1 -> vram_index - 1024
          [] p.mirroring = "Horizontal" /\ name_table = 3 -> vram_index - 2048
          [] OTHER -> vram_index

\* The length of Ppu.vram, `[u8; 0x800]`
VramSize == 2048

\* Ppu::write_to_data: the PPU after the call, and the panic it ends in, if any.
WriteToData(p, value) ==
    LET address == AddressGet(p.ppu_address)
        p1 == IncrementVramAddress(p)
    IN  CASE address <= 8191 ->
               IF address < p1.charactor_len
               THEN [ppu |-> [p1 EXCEPT !.charactor_rom = Put(@, address, value)],
                     fatal |-> "none"]
               ELSE [ppu |-> p1, fatal |-> "index_out_of_bounds"]
          [] address >= 8192 /\ address <= 12287 ->
               IF MirrorVramAddress(p1, address) < VramSize
               THEN [ppu |-> [p1 EXCEPT !.vram = Put(@, MirrorVramAddress(p1, address), value)],
                     fatal |-> "none"]
               ELSE [ppu |-> p1, fatal |-> "index_out_of_bounds"]
          [] address >= 12288 /\ address <= 16127 ->
               [ppu |-> p1, fatal |-> "ppu_address_3000"]
          [] address >= 16128 /\ address <= 16383 ->
               IF address - 16128 < 32
               THEN [ppu |-> [p1 EXCEPT !.palette_table = Put(@, address - 16128, value)],
                     fatal |-> "none"]
               ELSE [ppu |-> p1, fatal |-> "index_out_of_bounds"]
          [] OTHER -> [ppu |-> p1, fatal |-> "ppu_address_mirror"]

\* Ppu::read_data: the PPU after the call, the byte returned, and the panic, if any.
ReadData(p) ==
    LET address == AddressGet(p.ppu_address)
        p1 == IncrementVramAddress(p)
    IN  CASE address <= 8191 ->
               IF address < p1.charactor_len
               THEN [ppu |-> [p1 EXCEPT !.internal_data_buf = Get(p1.charactor_rom, address)],
                     value |-> p1.internal_data_buf, fatal |-> "none"]
               ELSE [ppu |-> p1, value |-> 0, fatal |-> "index_out_of_bounds"]
          [] address >= 8192 /\ address <= 12287 ->
               IF MirrorVramAddress(p1, address) < VramSize
               THEN [ppu |-> [p1 EXCEPT !.internal_data_buf =
                                            Get(p1.vram, MirrorVramAddress(p1, address))],
                     value |-> p1.internal_data_buf, fatal |-> "none"]
               ELSE [ppu |-> p1, value |-> 0, fatal |-> "index_out_of_bounds"]
          [] address >= 12288 /\ address <= 16127 ->
               [ppu |-> p1, value |-> 0, fatal |-> "ppu_address_3000"]
          [] address >= 16128 /\ address <= 16383 ->
               IF address - 16128 < 32
               THEN [ppu |-> p1, value |-> Get(p1.palette_table, address - 16128),
                     fatal |-> "none"]
               ELSE [ppu |-> p1, value |-> 0, fatal |-> "index_out_of_bounds"]
          [] OTHER -> [ppu |-> p1, value |-> 0, fatal |-> "ppu_address_mirror"]

----------------------------------------------------------------------------
(* The cartridge: rom.rs supplies program bytes, character bytes and the   *)
(* mirroring.  The program image is a parameterised test program.          *)

NmiVector == 65530

ResetVector == 65532

ProgramBase == 32768

HandlerBase == 32800

\* The program bytes of cartridge c (Rom.program), index 0 mapped at 0x8000:
\*   8000  LDX #sp0 ; TXS ; LDY #0 ; LDA #ctl ; STA $2000
\*   800A  NOP ; INX ; JMP $800A
\*   8020  handler "disable": STY $2000 ; RTI
\*         handler "count":   INX ; RTI
\*         handler "flags":   STY $2000 ; LDA #$FF ; PHA ; PLP ; ADC #$7F ; CMP #$80 ;
\*                            BIT $00 ; SBC #$01 ; PHP ; PLA ; LDA #$80 ; PHA ;
\*                            LDA #$0A ; PHA ; LDA #$10 ; PHA ; RTI
\*         handler "stack":   STY $2000 ; PHP ; PLP ; JSR $8030 ; LDA #$FF ; PHA ; PLP ;
\*                            PHP ; PLP ; RTI ; (8030) RTS
\*         handler "bad":     the byte 0x02, which is no opcode
\*         handler "stop":    BRK
\* and the NMI and reset vectors in the last six bytes.
ProgramImage(c) ==
    LET top == c.len - 6
        main == <<162, c.sp0, 154, 160, 0, 169, c.ctl, 141, 0, 32,
                  234, 232, 76, 10, 128>>
        handler == CASE c.handler = "disable" -> <<140, 0, 32, 64>>
                     [] c.handler = "count" -> <<232, 64>>
                     [] c.handler = "flags" ->
                          <<140, 0, 32, 169, 255, 72, 40, 105, 127, 201, 128, 36, 0,
                            233, 1, 8, 104, 169, 128, 72, 169, 10, 72, 169, 16, 72, 64>>
                     [] c.handler = "stack" ->
                          <<140, 0, 32, 8, 40, 32, 48, 128, 169, 255, 72, 40, 8, 40, 64,
                            0, 96>>
                     [] c.handler = "bad" -> <<2>>
                     [] OTHER -> <<0>>
    IN  [i \in 0..(Len(main) - 1) |-> main[i + 1]] @@
        [i \in 32..(32 + Len(handler) - 1) |-> handler[i - 31]] @@
        (top :> (HandlerBase % 256)) @@ ((top + 1) :> (HandlerBase \div 256)) @@
        ((top + 2) :> (ProgramBase % 256)) @@ ((top + 3) :> (ProgramBase \div 256))

----------------------------------------------------------------------------
(* bus.rs.  A machine value m carries register, bus, fatal and the         *)
(* histories; once m.fatal is set the program has panicked and every       *)
(* later operation leaves m alone.                                         *)

\* Bus::new
BusNew(c) == [wram |-> Zeroed, ppu |-> PpuNew(c.chr, c.mirroring), cycles |-> 0]

\* u8 multiplication by 3 as the build computes it; overflow is reported.
Mul3Overflows(n) == n * 3 > 255

\* Bus::tick
BusTick(m, n) ==
    IF m.fatal # "none" THEN m
    ELSE LET m1 == [m EXCEPT !.bus.cycles = @ + n] IN
         IF Mul3Overflows(n) /\ build = "debug"
         THEN [m1 EXCEPT !.fatal = "overflow"]
         ELSE LET k == (n * 3) % 256
                  t == PpuTick(m1.bus.ppu, k)
              IN  [m1 EXCEPT !.bus.ppu = t.ppu,
                             !.elapsed = @ + k,
                             !.frames = @ + (IF t.frame THEN 1 ELSE 0)]

\* read_program_rom_byte without the 16 KiB mirroring.
ReadProgramRomByteNoMirror(address) == Get(ProgramImage(cart), address - 32768)

\* Bus::read_program_rom_byte
ReadProgramRomByte(address) ==
    LET a0 == address - 32768
        a1 == IF cart.len = 16384 /\ a0 >= 16384 THEN a0 % 16384 ELSE a0
    IN  Get(ProgramImage(cart), a1)

\* The PPU-window redirection keeping only bit0-1 and bit13.
PpuMirrorDownTwoBits(address) == BitAnd(address, 8195)

\* The address a PPU-window access is redirected to (bit0-2 and bit13 kept).
PpuMirrorDown(address) == BitAnd(address, 8199)

\* The WRAM mask keeping bit0-11.
WramIndexWide(address) == BitAnd(address, 4095)

\* The WRAM cell of an address in 0x0000-0x1fff (bit0-10 kept).
WramIndex(address) == BitAnd(address, 2047)

WriteOnlyPorts == {8192, 8193, 8195, 8197, 8198, 16404}

\* A value together with the machine left by the reads that produced it.
Val(m, v) == [m |-> m, v |-> v]

\* The result r of Ppu::read_data stored back into the machine.
ReadDataInto(m, r) == Val([m EXCEPT !.bus.ppu = r.ppu, !.fatal = r.fatal], r.value)

\* Bus::read_memory_byte: the byte returned and the machine after the call.
BusRead(m, address) ==
    LET a == IF address >= 8200 /\ address <= 16383 THEN PpuMirrorDown(address)
             ELSE address
    IN  IF m.fatal # "none" THEN Val(m, 0)
        ELSE CASE a <= 8191 -> Val(m, Get(m.bus.wram, WramIndex(a)))
               [] a \in WriteOnlyPorts ->
                    Val([m EXCEPT !.fatal = "write_only_ppu_address"], 0)
               [] a = 8199 -> ReadDataInto(m, ReadData(m.bus.ppu))
               [] a >= 32768 -> Val(m, ReadProgramRomByte(a))
               [] OTHER -> Val(m, 0)

\* Bus::read_memory_word: the word returned (the call changes nothing).
BusReadWord(m, address) ==
    CASE address <= 8190 ->
           Get(m.bus.wram, WramIndex(WramIndex(address)))
           + 256 * Get(m.bus.wram, WramIndex(WramIndex(address) + 1))
      [] address >= 32768 /\ address <= 65534 ->
           ReadProgramRomByte(address) + 256 * ReadProgramRomByte(address + 1)
      [] OTHER -> 0

\* The result r of Ppu::write_to_data stored back into the machine.
WriteDataInto(m, r) == [m EXCEPT !.bus.ppu = r.ppu, !.fatal = r.fatal]

\* Bus::write_memory_byte
BusWrite(m, address, value) ==
    LET a == IF address >= 8200 /\ address <= 16383 THEN PpuMirrorDown(address)
             ELSE address
    IN  IF m.fatal # "none" THEN m
        ELSE CASE a <= 8191 -> [m EXCEPT !.bus.wram = Put(@, WramIndex(a), value)]
               [] a = 8192 -> [m EXCEPT !.bus.ppu = WriteToControl(@, value)]
               [] a = 8198 -> [m EXCEPT !.bus.ppu = WriteToPpuAddress(@, value)]
               [] a = 8199 -> WriteDataInto(m, WriteToData(m.bus.ppu, value))
               [] a >= 32768 -> [m EXCEPT !.fatal = "rom_readonly"]
               [] OTHER -> m

\* Bus::write_memory_word
BusWriteWord(m, address, value) ==
    LET lo == value % 256
        hi == value \div 256
    IN  CASE address <= 8190 ->
               LET a == WramIndex(address)
               IN  BusWrite(BusWrite(m, a, lo), a + 1, hi)
          [] address >= 32768 /\ address <= 65534 ->
               IF m.fatal # "none" THEN m ELSE [m EXCEPT !.fatal = "rom_readonly"]
          [] OTHER -> m

\* Bus::poll_nmi_status
BusPollNmiStatus(m) == PpuPollNmiStatus(m.bus.ppu)

----------------------------------------------------------------------------
(* opcode.rs                                                               *)

Op(instruction, bytes, cycles, mode) ==
    [instruction |-> instruction, bytes |-> bytes, cycles |-> cycles,
     addressing_mode |-> mode]

\* create_opcodes_map
OpcodeTable ==
    (0 :> Op("BRK", 1, 7, "NoneAddressing")) @@
    (1 :> Op("ORA", 2, 6, "IndirectX")) @@
    (5 :> Op("ORA", 2, 3, "ZeroPage")) @@
    (6 :> Op("ASL", 2, 5, "ZeroPage")) @@
    (8 :> Op("PHP", 1, 3, "NoneAddressing")) @@
    (9 :> Op("ORA", 2, 2, "Immediate")) @@
    (10 :> Op("ASL", 1, 2, "Accumulator")) @@
    (13 :> Op("ORA", 3, 4, "Absolute")) @@
    (14 :> Op("ASL", 3, 6, "Absolute")) @@
    (16 :> Op("BPL", 2, 2, "Relative")) @@
    (17 :> Op("ORA", 2, 5, "IndirectY")) @@
    (21 :> Op("ORA", 2, 4, "ZeroPageX")) @@
    (22 :> Op("ASL", 2, 6, "ZeroPageX")) @@
    (24 :> Op("CLC", 1, 2, "NoneAddressing")) @@
    (25 :> Op("ORA", 3, 4, "AbsoluteY")) @@
    (29 :> Op("ORA", 3, 4, "AbsoluteX")) @@
    (30 :> Op("ASL", 3, 7, "AbsoluteX")) @@
    (32 :> Op("JSR", 3, 6, "Absolute")) @@
    (33 :> Op("AND", 2, 6, "IndirectX")) @@
    (36 :> Op("BIT", 2, 3, "ZeroPage")) @@
    (37 :> Op("AND", 2, 3, "ZeroPage")) @@
    (38 :> Op("ROL", 2, 5, "ZeroPage")) @@
    (40 :> Op("PLP", 1, 4, "NoneAddressing")) @@
    (41 :> Op("AND", 2, 2, "Immediate")) @@
    (42 :> Op("ROL", 1, 2, "Accumulator")) @@
    (44 :> Op("BIT", 3, 4, "Absolute")) @@
    (45 :> Op("AND", 3, 4, "Absolute")) @@
    (46 :> Op("ROL", 3, 6, "Absolute")) @@
    (48 :> Op("BMI", 2, 2, "Relative")) @@
    (49 :> Op("AND", 2, 5, "IndirectY")) @@
    (53 :> Op("AND", 2, 4, "ZeroPageX")) @@
    (54 :> Op("ROL", 2, 6, "ZeroPageX")) @@
    (56 :> Op("SEC", 1, 2, "NoneAddressing")) @@
    (57 :> Op("AND", 3, 4, "AbsoluteY")) @@
    (61 :> Op("AND", 3, 4, "AbsoluteX")) @@
    (62 :> Op("ROL", 3, 7, "AbsoluteX")) @@
    (64 :> Op("RTI", 1, 6, "NoneAddressing")) @@
    (65 :> Op("EOR", 2, 6, "IndirectX")) @@
    (69 :> Op("EOR", 2, 3, "ZeroPage")) @@
    (70 :> Op("LSR", 2, 5, "ZeroPage")) @@
    (72 :> Op("PHA", 1, 3, "NoneAddressing")) @@
    (73 :> Op("EOR", 2, 2, "Immediate")) @@
    (74 :> Op("LSR", 1, 2, "Accumulator")) @@
    (76 :> Op("JMP", 3, 3, "Absolute")) @@
    (77 :> Op("EOR", 3, 4, "Absolute")) @@
    (78 :> Op("LSR", 3, 6, "Absolute")) @@
    (80 :> Op("BVC", 2, 2, "Relative")) @@
    (81 :> Op("EOR", 2, 5, "IndirectY")) @@
    (85 :> Op("EOR", 2, 4, "ZeroPageX")) @@
    (86 :> Op("LSR", 2, 6, "ZeroPageX")) @@
    (88 :> Op("CLI", 1, 2, "NoneAddressing")) @@
    (89 :> Op("EOR", 3, 4, "AbsoluteY")) @@
    (93 :> Op("EOR", 3, 4, "AbsoluteX")) @@
    (94 :> Op("LSR", 3, 7, "AbsoluteX")) @@
    (96 :> Op("RTS", 1, 6, "NoneAddressing")) @@
    (97 :> Op("ADC", 2, 6, "IndirectX")) @@
    (101 :> Op("ADC", 2, 3, "ZeroPage")) @@
    (102 :> Op("ROR", 2, 5, "ZeroPage")) @@
    (104 :> Op("PLA", 1, 4, "NoneAddressing")) @@
    (105 :> Op("ADC", 2, 2, "Immediate")) @@
    (106 :> Op("ROR", 1, 2, "Accumulator")) @@
    (108 :> Op("JMP", 3, 5, "Indirect")) @@
    (109 :> Op("ADC", 3, 4, "Absolute")) @@
    (110 :> Op("ROR", 3, 6, "Absolute")) @@
    (112 :> Op("BVS", 2, 2, "Relative")) @@
    (113 :> Op("ADC", 2, 5, "IndirectY")) @@
    (117 :> Op("ADC", 2, 4, "ZeroPageX")) @@
    (118 :> Op("ROR", 2, 6, "ZeroPageX")) @@
    (120 :> Op("SEI", 1, 2, "NoneAddressing")) @@
    (121 :> Op("ADC", 3, 4, "AbsoluteY")) @@
    (125 :> Op("ADC", 3, 4, "AbsoluteX")) @@
    (126 :> Op("ROR", 3, 7, "AbsoluteX")) @@
    (129 :> Op("STA", 2, 6, "IndirectX")) @@
    (132 :> Op("STY", 2, 3, "ZeroPage")) @@
    (133 :> Op("STA", 2, 3, "ZeroPage")) @@
    (134 :> Op("STX", 2, 3, "ZeroPage")) @@
    (136 :> Op("DEY", 1, 2, "NoneAddressing")) @@
    (138 :> Op("TXA", 1, 2, "NoneAddressing")) @@
    (140 :> Op("STY", 3, 4, "Absolute")) @@
    (141 :> Op("STA", 3, 4, "Absolute")) @@
    (142 :> Op("STX", 3, 4, "Absolute")) @@
    (144 :> Op("BCC", 2, 2, "Relative")) @@
    (145 :> Op("STA", 2, 6, "IndirectY")) @@
    (148 :> Op("STY", 2, 4, "ZeroPageX")) @@
    (149 :> Op("STA", 2, 4, "ZeroPageX")) @@
    (150 :> Op("STX", 2, 4, "ZeroPageY")) @@
    (152 :> Op("TYA", 1, 2, "NoneAddressing")) @@
    (153 :> Op("STA", 3, 5, "AbsoluteY")) @@
    (154 :> Op("TXS", 1, 2, "NoneAddressing")) @@
    (157 :> Op("STA", 3, 5, "AbsoluteX")) @@
    (160 :> Op("LDY", 2, 2, "Immediate")) @@
    (161 :> Op("LDA", 2, 6, "IndirectX")) @@
    (162 :> Op("LDX", 2, 2, "Immediate")) @@
    (164 :> Op("LDY", 2, 3, "ZeroPage")) @@
    (165 :> Op("LDA", 2, 3, "ZeroPage")) @@
    (166 :> Op("LDX", 2, 3, "ZeroPage")) @@
    (168 :> Op("TAY", 1, 2, "NoneAddressing")) @@
    (169 :> Op("LDA", 2, 2, "Immediate")) @@
    (170 :> Op("TAX", 1, 2, "NoneAddressing")) @@
    (172 :> Op("LDY", 3, 4, "Absolute")) @@
    (173 :> Op("LDA", 3, 4, "Absolute")) @@
    (174 :> Op("LDX", 3, 4, "Absolute")) @@
    (176 :> Op("BCS", 2, 2, "Relative")) @@
    (177 :> Op("LDA", 2, 5, "IndirectY")) @@
    (180 :> Op("LDY", 2, 4, "ZeroPageX")) @@
    (181 :> Op("LDA", 2, 4, "ZeroPageX")) @@
    (182 :> Op("LDX", 2, 4, "ZeroPageY")) @@
    (184 :> Op("CLV", 1, 2, "NoneAddressing")) @@
    (185 :> Op("LDA", 3, 4, "AbsoluteY")) @@
    (186 :> Op("TSX", 1, 2, "NoneAddressing")) @@
    (188 :> Op("LDY", 3, 4, "AbsoluteX")) @@
    (189 :> Op("LDA", 3, 4, "AbsoluteX")) @@
    (190 :> Op("LDX", 3, 4, "AbsoluteY")) @@
    (192 :> Op("CPY", 2, 2, "Immediate")) @@
    (193 :> Op("CMP", 2, 6, "IndirectX")) @@
    (196 :> Op("CPY", 2, 3, "ZeroPage")) @@
    (197 :> Op("CMP", 2, 3, "ZeroPage")) @@
    (198 :> Op("DEC", 2, 5, "ZeroPage")) @@
    (200 :> Op("INY", 1, 2, "NoneAddressing")) @@
    (201 :> Op("CMP", 2, 2, "Immediate")) @@
    (202 :> Op("DEX", 1, 2, "NoneAddressing")) @@
    (204 :> Op("CPY", 3, 4, "Absolute")) @@
    (205 :> Op("CMP", 3, 4, "Absolute")) @@
    (206 :> Op("DEC", 3, 6, "Absolute")) @@
    (208 :> Op("BNE", 2, 2, "Relative")) @@
    (209 :> Op("CMP", 2, 5, "IndirectY")) @@
    (213 :> Op("CMP", 2, 4, "ZeroPageX")) @@
    (214 :> Op("DEC", 2, 6, "ZeroPageX")) @@
    (216 :> Op("CLD", 1, 2, "NoneAddressing")) @@
    (217 :> Op("CMP", 3, 4, "AbsoluteY")) @@
    (221 :> Op("CMP", 3, 4, "AbsoluteX")) @@
    (222 :> Op("DEC", 3, 7, "AbsoluteX")) @@
    (224 :> Op("CPX", 2, 2, "Immediate")) @@
    (225 :> Op("SBC", 2, 6, "IndirectX")) @@
    (228 :> Op("CPX", 2, 3, "ZeroPage")) @@
    (229 :> Op("SBC", 2, 3, "ZeroPage")) @@
    (230 :> Op("INC", 2, 5, "ZeroPage")) @@
    (232 :> Op("INX", 1, 2, "NoneAddressing")) @@
    (233 :> Op("SBC", 2, 2, "Immediate")) @@
    (234 :> Op("NOP", 1, 2, "NoneAddressing")) @@
    (236 :> Op("CPX", 3, 4, "Absolute")) @@
    (237 :> Op("SBC", 3, 4, "Absolute")) @@
    (238 :> Op("INC", 3, 6, "Absolute")) @@
    (240 :> Op("BEQ", 2, 2, "Relative")) @@
    (241 :> Op("SBC", 2, 5, "IndirectY")) @@
    (245 :> Op("SBC", 2, 4, "ZeroPageX")) @@
    (246 :> Op("INC", 2, 6, "ZeroPageX")) @@
    (248 :> Op("SED", 1, 2, "NoneAddressing")) @@
    (249 :> Op("SBC", 3, 4, "AbsoluteY")) @@
    (253 :> Op("SBC", 3, 4, "AbsoluteX")) @@
    (254 :> Op("INC", 3, 7, "AbsoluteX"))

----------------------------------------------------------------------------
(* cpu.rs                                                                  *)

DEFAULT_SP == 253

STACK_BASE_ADDRESS == 256

\* StatusRegister::default: r | i
StatusDefault == BIT5 + BIT2

\* CpuRegister::default
CpuRegisterDefault ==
    [a |-> 0, x |-> 0, y |-> 0, p |-> StatusDefault, sp |-> DEFAULT_SP, pc |-> 0]

\* Cpu::read_memory_byte
Rd(m, address) == BusRead(m, address)

\* Cpu::read_memory_word
RdW(m, address) == Val(m, BusReadWord(m, address))

\* Cpu::new
CpuNew(c) ==
    LET m0 == [register |-> CpuRegisterDefault, bus |-> BusNew(c), fatal |-> "none",
               elapsed |-> 0, frames |-> 0, callbacks |-> 0]
    IN  [m0 EXCEPT !.register.pc = BusReadWord(m0, ResetVector)]

\* reset reloading only the program counter.
CpuResetPcOnly(m) == [m EXCEPT !.register.pc = BusReadWord(m, ResetVector)]

\* Cpu::reset
CpuReset(m) ==
    [m EXCEPT !.register = [CpuRegisterDefault EXCEPT !.pc = BusReadWord(m, ResetVector)]]

\* `sp -= 1` on the u8 stack pointer
DecSp(m) ==
    IF m.fatal # "none" THEN m
    ELSE IF m.register.sp = 0
         THEN IF build = "debug" THEN [m EXCEPT !.fatal = "overflow"]
                                 ELSE [m EXCEPT !.register.sp = 255]
         ELSE [m EXCEPT !.register.sp = @ - 1]

\* `sp += 1` on the u8 stack pointer
IncSp(m) ==
    IF m.fatal # "none" THEN m
    ELSE IF m.register.sp = 255
         THEN IF build = "debug" THEN [m EXCEPT !.fatal = "overflow"]
                                 ELSE [m EXCEPT !.register.sp = 0]
         ELSE [m EXCEPT !.register.sp = @ + 1]

\* `pc += d` on the u16 program counter
AddPc(m, d) ==
    IF m.fatal # "none" THEN m
    ELSE IF m.register.pc + d > 65535
         THEN IF build = "debug" THEN [m EXCEPT !.fatal = "overflow"]
                                 ELSE [m EXCEPT !.register.pc = (@ + d) % 65536]
         ELSE [m EXCEPT !.register.pc = @ + d]

\* Cpu::stack_push_byte
StackPushByte(m, value) ==
    DecSp(BusWrite(m, STACK_BASE_ADDRESS + m.register.sp, value))

\* stack_push_word: the write after the first `sp -= 1`, and the second `sp -= 1`
PushWordAt(m1, value) ==
    DecSp(BusWriteWord(m1, STACK_BASE_ADDRESS + m1.register.sp, value))

\* Cpu::stack_push_word
StackPushWord(m, value) == PushWordAt(DecSp(m), value)

\* stack_pop_byte: the read after `sp += 1`
PopByteAt(m1) ==
    IF m1.fatal # "none" THEN Val(m1, 0)
    ELSE Rd(m1, STACK_BASE_ADDRESS + m1.register.sp)

\* Cpu::stack_pop_byte
StackPopByte(m) == PopByteAt(IncSp(m))

\* stack_pop_word: the read after the first `sp += 1`, and the second `sp += 1`
PopWordAt(m1) ==
    IF m1.fatal # "none" THEN Val(m1, 0)
    ELSE Val(IncSp(m1), BusReadWord(m1, STACK_BASE_ADDRESS + m1.register.sp))

\* Cpu::stack_pop_word
StackPopWord(m) == PopWordAt(IncSp(m))

\* interrupt_nmi: the status byte pushed (B cleared, R set).
NmiStatus(p) == BitOr(BitClear(p, BIT4), BIT5)

\* interrupt_nmi: `self.stack_push_byte(status)`
PushStatus(m) == StackPushByte(m, NmiStatus(m.register.p))

\* interrupt_nmi: `self.register.p = from_bits(p | BIT2)`
SetInterruptDisable(m) ==
    IF m.fatal # "none" THEN m ELSE [m EXCEPT !.register.p = BitOr(@, BIT2)]

\* interrupt_nmi: `self.register.pc = self.read_memory_word(0xfffa)`
LoadPc(m, vector) ==
    IF m.fatal # "none" THEN m ELSE [m EXCEPT !.register.pc = BusReadWord(m, vector)]

\* Variant of InterruptNmi: the status is pushed after I has been set.
InterruptNmiPushesDisabled(m) ==
    LoadPc(BusTick(PushStatus(SetInterruptDisable(StackPushWord(m, m.register.pc))), 2),
           NmiVector)

\* interrupt_nmi without its `self.bus.tick(2)`
InterruptNmiNoTick(m) ==
    LoadPc(SetInterruptDisable(PushStatus(StackPushWord(m, m.register.pc))), NmiVector)

\* Cpu::interrupt_nmi
InterruptNmi(m) ==
    LoadPc(BusTick(SetInterruptDisable(PushStatus(StackPushWord(m, m.register.pc))), 2),
           NmiVector)

\* r.v + d in the width given by modulus
IndexedBy(r, d, modulus) == Val(r.m, (r.v + d) % modulus)

\* ((hi as u16) << 8) + lo as u16
PairJoin(lo, hi) == Val(hi.m, hi.v * 256 + lo.v)

PairHi(lo, a2) == PairJoin(lo, Rd(lo.m, a2))

\* Two byte reads, the low byte at a1 and then the high byte at a2.
ReadPair(m, a1, a2) == PairHi(Rd(m, a1), a2)

\* Variant of IndirectAt: the high byte always comes from address + 1.
IndirectAtNextByte(m, address) == RdW(m, address)

\* get_operand_address, Indirect: the pointer at address, with the page bug.
IndirectAt(m, address) ==
    IF BitAnd(address, 255) = 255
    THEN ReadPair(m, address, BitAnd(address, 65280))
    ELSE RdW(m, address)

\* Variant of IndirectXAt: the high byte is read past the end of the zero page.
IndirectXAtNoWrap(b, x) == ReadPair(b.m, (b.v + x) % 256, ((b.v + x) % 256) + 1)

\* get_operand_address, IndirectX: b is the operand byte.
IndirectXAt(b, x) == ReadPair(b.m, (b.v + x) % 256, (b.v + x + 1) % 256)

\* get_operand_address, IndirectY: b is the operand byte.
IndirectYAt(b, y) == IndexedBy(ReadPair(b.m, b.v, (b.v + 1) % 256), y, 65536)

\* Cpu::get_operand_address
GetOperandAddress(m, mode) ==
    LET pc == m.register.pc
        x == m.register.x
        y == m.register.y
    IN  CASE mode \in {"Immediate", "Relative"} -> Val(m, pc)
          [] mode = "ZeroPage" -> Rd(m, pc)
          [] mode = "ZeroPageX" -> IndexedBy(Rd(m, pc), x, 256)
          [] mode = "ZeroPageY" -> IndexedBy(Rd(m, pc), y, 256)
          [] mode = "Absolute" -> RdW(m, pc)
          [] mode = "AbsoluteX" -> IndexedBy(RdW(m, pc), x, 65536)
          [] mode = "AbsoluteY" -> IndexedBy(RdW(m, pc), y, 65536)
          [] mode = "Indirect" -> IndirectAt(m, BusReadWord(m, pc))
          [] mode = "IndirectX" -> IndirectXAt(Rd(m, pc), x)
          [] mode = "IndirectY" -> IndirectYAt(Rd(m, pc), y)
          [] OTHER -> Val([m EXCEPT !.fatal = IF @ = "none" THEN "not_supported" ELSE @], 0)

\* Cpu::update_zero_and_negative_flags
UpdateZeroAndNegativeFlags(p, result) ==
    LET p1 == IF result = 0 THEN BitOr(p, BIT1) ELSE BitClear(p, BIT1)
    IN  IF BitAnd(result, BIT7) # 0 THEN BitOr(p1, BIT7) ELSE BitClear(p1, BIT7)

\* A register load: the register takes v and Z, N follow it.
Load(m, reg, v) ==
    IF m.fatal # "none" THEN m
    ELSE [m EXCEPT !.register[reg] = v,
                   !.register.p = UpdateZeroAndNegativeFlags(@, v)]

\* The register reg takes the byte that was read.
LoadRead(value, reg) == Load(value.m, reg, value.v)

ReadAt(address) == Rd(address.m, address.v)

\* lda, ldx, ldy
LoadFrom(m, mode, reg) == LoadRead(ReadAt(GetOperandAddress(m, mode)), reg)

WriteAt(address, value) == BusWrite(address.m, address.v, value)

\* sta, stx, sty
StoreTo(m, mode, reg) == WriteAt(GetOperandAddress(m, mode), m.register[reg])

SetP(m, p) == IF m.fatal # "none" THEN m ELSE [m EXCEPT !.register.p = p]

\* plp taking the popped byte as it is.
PlpFromRaw(b) == SetP(b.m, b.v)

\* plp: bit4 of the popped byte is ignored, bit5 is set.
PlpFrom(b) == SetP(b.m, BitOr(BitClear(b.v, BIT4), BIT5))

\* Cpu::plp
Plp(m) == PlpFrom(StackPopByte(m))

\* The program counter takes the word w.v plus d.
PcFrom(w, d) ==
    IF w.m.fatal # "none" THEN w.m
    ELSE IF w.v + d > 65535
         THEN IF build = "debug" THEN [w.m EXCEPT !.fatal = "overflow"]
                                 ELSE [w.m EXCEPT !.register.pc = (w.v + d) % 65536]
         ELSE [w.m EXCEPT !.register.pc = w.v + d]

\* Cpu::rti
Rti(m) == PcFrom(StackPopWord(Plp(m)), 0)

\* Cpu::rts
Rts(m) == PcFrom(StackPopWord(m), 1)

\* Cpu::jmp
Jmp(m, mode) == PcFrom(GetOperandAddress(m, mode), 0)

\* Cpu::jsr
Jsr(m, mode) ==
    IF m.register.pc + 2 > 65535 /\ build = "debug"
    THEN [m EXCEPT !.fatal = "overflow"]
    ELSE Jmp(StackPushWord(m, (m.register.pc + 2 + 65535) % 65536), mode)

\* Cpu::pla
Pla(m) == LoadRead(StackPopByte(m), "a")

\* StatusRegister::set(flag, on)
SetFlag(p, flag, on) == IF on THEN BitOr(p, flag) ELSE BitClear(p, flag)

\* Variant of AddWithCarry: the carry flag is not added in.
AddWithoutCarry(m, value) ==
    LET old_a == m.register.a
        sum == old_a + value
        result == sum % 256
        overflowed == /\ Bit(old_a, 7) # Bit(result, 7)
                      /\ Bit(value, 7) # Bit(result, 7)
    IN  IF m.fatal # "none" THEN m
        ELSE [m EXCEPT !.register.a = result,
                       !.register.p =
                           SetFlag(SetFlag(UpdateZeroAndNegativeFlags(@, result),
                                           BIT0, sum > 255),
                                   BIT6, overflowed)]

\* adc_sbc_sub after the operand read: a + value + c, then z, n, c and v.
AddWithCarry(m, value) ==
    LET old_a == m.register.a
        sum == old_a + value + Bit(m.register.p, 0)
        result == sum % 256
        overflowed == /\ Bit(old_a, 7) # Bit(result, 7)
                      /\ Bit(value, 7) # Bit(result, 7)
    IN  IF m.fatal # "none" THEN m
        ELSE [m EXCEPT !.register.a = result,
                       !.register.p =
                           SetFlag(SetFlag(UpdateZeroAndNegativeFlags(@, result),
                                           BIT0, sum > 255),
                                   BIT6, overflowed)]

\* Variant of AddRead: sbc adds the two's complement of the operand.
AddReadNegated(rd, is_adc) ==
    AddWithCarry(rd.m, IF is_adc THEN rd.v ELSE (256 - rd.v) % 256)

\* adc_sbc_sub: the value added is the operand, or 255 - operand for sbc.
AddRead(rd, is_adc) == AddWithCarry(rd.m, IF is_adc THEN rd.v ELSE 255 - rd.v)

\* Cpu::adc_sbc_sub
AdcSbcSub(m, mode, is_adc) == AddRead(ReadAt(GetOperandAddress(m, mode)), is_adc)

\* and after the operand read
AndRead(rd) == Load(rd.m, "a", BitAnd(rd.m.register.a, rd.v))

\* Cpu::and
And(m, mode) == AndRead(ReadAt(GetOperandAddress(m, mode)))

\* anc after and: `p.set(c, p.contains(z))`
AncCarry(m) ==
    IF m.fatal # "none" THEN m
    ELSE [m EXCEPT !.register.p = SetFlag(@, BIT0, Bit(@, 1) = 1)]

\* Cpu::anc
Anc(m, mode) == AncCarry(And(m, mode))

\* axs after the operand read: x = (x & a) - value, c inserted if value <= x & a
AxsRead(rd) ==
    LET x_and_a == BitAnd(rd.m.register.x, rd.m.register.a)
        result == (x_and_a + 256 - rd.v) % 256
    IN  IF rd.m.fatal # "none" THEN rd.m
        ELSE [rd.m EXCEPT !.register.x = result,
                          !.register.p =
                              UpdateZeroAndNegativeFlags(
                                  IF rd.v <= x_and_a THEN BitOr(@, BIT0) ELSE @, result)]

\* Cpu::axs
Axs(m, mode) == AxsRead(ReadAt(GetOperandAddress(m, mode)))

\* bit after the operand read
BitRead(rd) ==
    IF rd.m.fatal # "none" THEN rd.m
    ELSE [rd.m EXCEPT !.register.p =
              SetFlag(SetFlag(SetFlag(@, BIT1, BitAnd(rd.v, rd.m.register.a) = 0),
                              BIT6, BitAnd(rd.v, BIT6) # 0),
                      BIT7, BitAnd(rd.v, BIT7) # 0)]

\* Cpu::bit
BitTest(m, mode) == BitRead(ReadAt(GetOperandAddress(m, mode)))

\* cmp_sub after the operand read
CmpRead(rd, subtracted_value) ==
    IF rd.m.fatal # "none" THEN rd.m
    ELSE [rd.m EXCEPT !.register.p =
              UpdateZeroAndNegativeFlags(SetFlag(@, BIT0, subtracted_value >= rd.v),
                                         (subtracted_value - rd.v + 256) % 256)]

\* Cpu::cmp_sub
CmpSub(m, mode, subtracted_value) ==
    CmpRead(ReadAt(GetOperandAddress(m, mode)), subtracted_value)

\* bxx_sub after the operand read: `pc.wrapping_add(offset as i8 as u16)` if taken
BranchRead(rd, taken) ==
    IF rd.m.fatal # "none" \/ ~taken THEN rd.m
    ELSE [rd.m EXCEPT !.register.pc =
              (@ + rd.v + (IF rd.v >= 128 THEN 65280 ELSE 0)) % 65536]

\* Cpu::bxx_sub
BxxSub(m, mode, target_status, trigger) ==
    BranchRead(ReadAt(GetOperandAddress(m, mode)), target_status = trigger)

\* The instructions whose bodies are modelled.
Modelled ==
    {"BCC", "BCS", "BEQ", "BMI", "BNE", "BPL", "BVC", "BVS",
     "ADC", "AND", "BIT", "BRK", "CLC", "CLD", "CLI", "CLV", "CMP", "CPX", "CPY",
     "DEX", "DEY", "INX", "INY", "JMP", "JSR", "LDA", "LDX", "LDY", "NOP", "PHA",
     "PHP", "PLA", "PLP", "RTI", "RTS", "SBC", "SEC", "SED", "SEI", "STA", "STX",
     "STY", "TAX", "TAY", "TSX", "TXA", "TXS", "TYA"}

\* The match on opcode.instruction in run_with_callback.
Execute(m, opcode) ==
    LET i == opcode.instruction
        mode == opcode.addressing_mode
        r == m.register
    IN  CASE i = "CLC" -> SetP(m, BitClear(r.p, BIT0))
          [] i = "CLD" -> SetP(m, BitClear(r.p, BIT3))
          [] i = "CLI" -> SetP(m, BitClear(r.p, BIT2))
          [] i = "CLV" -> SetP(m, BitClear(r.p, BIT6))
          [] i = "SEC" -> SetP(m, BitOr(r.p, BIT0))
          [] i = "SED" -> SetP(m, BitOr(r.p, BIT3))
          [] i = "SEI" -> SetP(m, BitOr(r.p, BIT2))
          [] i = "DEX" -> Load(m, "x", (r.x + 255) % 256)
          [] i = "DEY" -> Load(m, "y", (r.y + 255) % 256)
          [] i = "INX" -> Load(m, "x", (r.x + 1) % 256)
          [] i = "INY" -> Load(m, "y", (r.y + 1) % 256)
          [] i = "TAX" -> Load(m, "x", r.a)
          [] i = "TAY" -> Load(m, "y", r.a)
          [] i = "TSX" -> Load(m, "x", r.sp)
          [] i = "TXA" -> Load(m, "a", r.x)
          [] i = "TYA" -> Load(m, "a", r.y)
          [] i = "TXS" -> [m EXCEPT !.register.sp = r.x]
          [] i = "LDA" -> LoadFrom(m, mode, "a")
          [] i = "LDX" -> LoadFrom(m, mode, "x")
          [] i = "LDY" -> LoadFrom(m, mode, "y")
          [] i = "STA" -> StoreTo(m, mode, "a")
          [] i = "STX" -> StoreTo(m, mode, "x")
          [] i = "STY" -> StoreTo(m, mode, "y")
          [] i = "PHA" -> StackPushByte(m, r.a)
          [] i = "PHP" -> StackPushByte(m, BitOr(r.p, BIT4 + BIT5))
          [] i = "PLA" -> Pla(m)
          [] i = "PLP" -> Plp(m)
          [] i = "RTI" -> Rti(m)
          [] i = "RTS" -> Rts(m)
          [] i = "JMP" -> Jmp(m, mode)
          [] i = "JSR" -> Jsr(m, mode)
          [] i = "ADC" -> AdcSbcSub(m, mode, TRUE)
          [] i = "SBC" -> AdcSbcSub(m, mode, FALSE)
          [] i = "AND" -> And(m, mode)
          [] i = "BIT" -> BitTest(m, mode)
          [] i = "CMP" -> CmpSub(m, mode, r.a)
          [] i = "CPX" -> CmpSub(m, mode, r.x)
          [] i = "CPY" -> CmpSub(m, mode, r.y)
          [] i = "BCC" -> BxxSub(m, mode, Bit(r.p, 0) = 1, FALSE)
          [] i = "BCS" -> BxxSub(m, mode, Bit(r.p, 0) = 1, TRUE)
          [] i = "BEQ" -> BxxSub(m, mode, Bit(r.p, 1) = 1, TRUE)
          [] i = "BNE" -> BxxSub(m, mode, Bit(r.p, 1) = 1, FALSE)
          [] i = "BMI" -> BxxSub(m, mode, Bit(r.p, 7) = 1, TRUE)
          [] i = "BPL" -> BxxSub(m, mode, Bit(r.p, 7) = 1, FALSE)
          [] i = "BVC" -> BxxSub(m, mode, Bit(r.p, 6) = 1, FALSE)
          [] i = "BVS" -> BxxSub(m, mode, Bit(r.p, 6) = 1, TRUE)
          [] OTHER -> m

\* is_update_pc in run_with_callback
IsUpdatePc(opcode) == opcode.instruction \notin {"JMP", "JSR", "RTI", "RTS"}

----------------------------------------------------------------------------
(* The state machine.                                                      *)

\* The machine value held by the variables.
M ==
    [register |-> register, bus |-> bus, fatal |-> fatal,
     elapsed |-> elapsed, frames |-> frames, callbacks |-> callbacks]

\* The variables take the machine value m.
Commit(m) ==
    /\ register' = m.register
    /\ bus' = m.bus
    /\ fatal' = m.fatal
    /\ elapsed' = m.elapsed
    /\ frames' = m.frames
    /\ callbacks' = m.callbacks

\* 1 when the NMI latch went from clear to set between two PPU values.
Raised(p, q) == IF ~p.nmi_interrupt /\ q.nmi_interrupt THEN 1 ELSE 0

\* The cartridges the machine is built from.
StackPointers == {0, 1, 2, 253}

ControlArgs == {0, 128}

Handlers == {"disable", "count", "flags", "stop"}

Carts ==
    [len : {16384, 32768}, chr : {8192}, mirroring : {"Horizontal"},
     sp0 : StackPointers, ctl : ControlArgs, handler : Handlers]

\* The history of a run that has not started yet.
StepNew ==
    [polled |-> FALSE, serviced |-> FALSE, called |-> FALSE,
     pre |-> M, seen |-> register, last |-> [code |-> 256, register |-> register],
     entry |-> register, nmis |-> 0, base |-> 0, executed |-> 0, raised |-> 0, wraps |-> 0]

\* No call has been made yet.
NoCall == [op |-> "none", address |-> 0, value |-> 0, result |-> 0, n |-> 0]

\* Nes::new: the state after construction.
Init ==
    /\ cart \in Carts
    /\ build \in {"debug", "release"}
    /\ register = CpuNew(cart).register
    /\ bus = CpuNew(cart).bus
    /\ fatal = "none"
    /\ elapsed = 0
    /\ frames = 0
    /\ callbacks = 0
    /\ at = 1
    /\ ret = << >>
    /\ step = StepNew
    /\ call = NoCall

\* The loop body with the callback moved in front of the NMI poll.
LoopOrderCallbackFirst == <<"callback", "poll", "fetch">>

\* The order of the statements of the loop body of run_with_callback;
\* position 0 is "the loop has returned".
LoopOrder == <<"poll", "callback", "fetch">>

Here(what) == at \in DOMAIN LoopOrder /\ LoopOrder[at] = what

Advance == at' = IF at = Len(LoopOrder) THEN 1 ELSE at + 1

Running == fatal = "none" /\ bus.cycles <= MaxLoopCycles

\* `if self.bus.poll_nmi_status() { self.interrupt_nmi(); }`
PollAndService(m) == IF BusPollNmiStatus(m) THEN InterruptNmi(m) ELSE m

\* run_with_callback: the NMI poll and service at the top of the loop body.
LoopPoll ==
    /\ Running
    /\ Here("poll")
    /\ LET Finish(pending, m) ==
               /\ Commit(m)
               /\ ret' = <<pending>>
               /\ step' = [step EXCEPT
                              !.polled = TRUE,
                              !.serviced = pending,
                              !.pre = M,
                              !.entry = IF pending THEN register ELSE @,
                              !.nmis = @ + (IF pending /\ m.fatal = "none" THEN 1 ELSE 0),
                              !.raised = @ + Raised(bus.ppu, m.bus.ppu)]
       IN  Finish(BusPollNmiStatus(M), PollAndService(M))
    /\ Advance
    /\ UNCHANGED <<call, cart, build>>

\* run_with_callback: `callback(self)`; the host callback looks at the CPU.
LoopCallback ==
    /\ Running
    /\ Here("callback")
    /\ step' = [step EXCEPT !.called = TRUE, !.seen = register]
    /\ Advance
    /\ ret' = << >>
    /\ UNCHANGED <<register, bus, fatal, elapsed, frames, callbacks, call, cart, build>>

\* run_with_callback: `if is_update_pc { self.register.pc += opcode.bytes as u16 - 1 }`
UpdatePc(m, opcode) == IF IsUpdatePc(opcode) THEN AddPc(m, opcode.bytes - 1) ELSE m

\* run_with_callback: the match on the instruction, the tick and the pc update.
RunOpcode(m, opcode) == UpdatePc(BusTick(Execute(m, opcode), opcode.cycles), opcode)

\* The panic message of `.expect(&format!("{} is not recognized", code))`
NotRecognized(code) == ToString(code) \o " is not recognized"

\* The dispatch with a byte that is no opcode skipped as a two-cycle no-op.
DispatchSkipsUnknown(m, code) ==
    IF m.fatal # "none" THEN [m |-> m, returned |-> FALSE]
    ELSE IF code \notin DOMAIN OpcodeTable
         THEN [m |-> BusTick(m, 2), returned |-> FALSE]
         ELSE IF OpcodeTable[code].instruction = "BRK"
              THEN [m |-> m, returned |-> TRUE]
              ELSE [m |-> RunOpcode(m, OpcodeTable[code]), returned |-> FALSE]

\* The dispatch with BRK run like any other instruction instead of returning.
DispatchBrkRuns(m, code) ==
    IF m.fatal # "none" THEN [m |-> m, returned |-> FALSE]
    ELSE IF code \notin DOMAIN OpcodeTable
         THEN [m |-> [m EXCEPT !.fatal = NotRecognized(code)], returned |-> FALSE]
         ELSE [m |-> RunOpcode(m, OpcodeTable[code]), returned |-> FALSE]

\* run_with_callback after `pc += 1`: look the opcode up and run it, or return on BRK.
Dispatch(m, code) ==
    IF m.fatal # "none" THEN [m |-> m, returned |-> FALSE]
    ELSE IF code \notin DOMAIN OpcodeTable
         THEN [m |-> [m EXCEPT !.fatal = NotRecognized(code)], returned |-> FALSE]
         ELSE IF OpcodeTable[code].instruction = "BRK"
              THEN [m |-> m, returned |-> TRUE]
              ELSE [m |-> RunOpcode(m, OpcodeTable[code]), returned |-> FALSE]

\* run_with_callback from the fetch to the end of the loop body; code is the fetch.
FetchExecute(code) == Dispatch(AddPc(code.m, 1), code.v)

\* The byte at pc.
Fetched == BusRead(M, register.pc).v

\* The base cycles of the instruction at pc (0 when the byte is no opcode).
FetchedCycles == IF Fetched \in DOMAIN OpcodeTable THEN OpcodeTable[Fetched].cycles ELSE 0

\* run_with_callback: fetch, decode, execute, tick, advance pc.
LoopExecute ==
    /\ Running
    /\ Here("fetch")
    /\ Fetched \in DOMAIN OpcodeTable => OpcodeTable[Fetched].instruction \in Modelled
    /\ LET Finish(r) ==
               /\ Commit(r.m)
               /\ at' = IF r.returned THEN 0 ELSE 1
               /\ step' = [step EXCEPT
                              !.polled = FALSE, !.serviced = FALSE, !.called = FALSE,
                              !.last = [code |-> Fetched, register |-> register],
                              !.base = @ + (IF ~r.returned /\ r.m.fatal = "none"
                                            THEN FetchedCycles ELSE 0),
                              !.executed = @ + (IF ~r.returned /\ r.m.fatal = "none"
                                                THEN 1 ELSE 0),
                              !.raised = @ + Raised(bus.ppu, r.m.bus.ppu)]
       IN  Finish(FetchExecute(Rd(M, register.pc)))
    /\ ret' = << >>
    /\ UNCHANGED <<call, cart, build>>

Next == LoopPoll \/ LoopCallback \/ LoopExecute

\* The machine running a program: Cpu::run_with_callback.
Spec == Init /\ [][Next]_vars

----------------------------------------------------------------------------
(* The execution loop running the programs that exercise the stack, an     *)
(* unknown opcode and BRK from inside the NMI handler.                      *)

ProgCarts ==
    [len : {32768}, chr : {8192}, mirroring : {"Horizontal"},
     sp0 : {3, 4, 253}, ctl : {128}, handler : {"stack", "bad", "stop"}]

InitProg ==
    /\ cart \in ProgCarts
    /\ build \in {"debug", "release"}
    /\ register = CpuNew(cart).register
    /\ bus = CpuNew(cart).bus
    /\ fatal = "none"
    /\ elapsed = 0
    /\ frames = 0
    /\ callbacks = 0
    /\ at = 1
    /\ ret = << >>
    /\ step = StepNew
    /\ call = NoCall

SpecProg == InitProg /\ [][Next]_vars

----------------------------------------------------------------------------
(* The execution loop on single instructions, set up as the unit tests of  *)
(* cpu.rs set them up: the registers are assigned, the instruction and its *)
(* data are written to WRAM (whose zero bytes are BRK), and the loop runs. *)

\* Operand and accumulator values: zero, the sign boundary and the ends.
AluBytes == {0, 1, 63, 64, 127, 128, 129, 192, 254, 255}

\* Status bytes: none or all of N, V, Z with and without carry.
AluFlags == {36, 37, 230, 231}

\* A test: the program prog at org, registers, WRAM cells mem, and the byte
\* written to the PPU control register before the run (0: none).
Test(org, prog, a, x, y, p, mem, ctl) ==
    [org |-> org, prog |-> prog, a |-> a, x |-> x, y |-> y, p |-> p, mem |-> mem,
     ctl |-> ctl]

\* ADC #m and SBC #m at 0x0200
AdcTests ==
    {Test(512, <<105, m>>, a, 0, 0, p, Zeroed, 0) : a \in AluBytes, m \in AluBytes,
                                                   p \in AluFlags}

SbcTests ==
    {Test(512, <<233, m>>, a, 0, 0, p, Zeroed, 0) : a \in AluBytes, m \in AluBytes,
                                                   p \in AluFlags}

\* BCC, BCS, BEQ, BMI, BNE, BPL, BVC, BVS
BranchOpcodes == {144, 176, 240, 48, 208, 16, 80, 112}

\* A branch at the bottom of memory and one at 0x0200; the offsets go forward,
\* backward, to the extremes, and onto the branch itself.
BranchTests ==
    {Test(org, <<code, o>>, 17, 34, 51, p, Zeroed, 0) :
        org \in {0, 512}, code \in BranchOpcodes, o \in {0, 16, 127, 128, 253, 254},
        p \in {36, 231}}

\* WRAM cells holding pointers: at 0x0300, across the end of page 3, in the
\* zero page and across the end of the zero page.
PointerCells ==
    (768 :> 64) @@ (769 :> 5) @@ (1023 :> 128) @@ (1024 :> 6) @@
    (16 :> 52) @@ (17 :> 18) @@ (255 :> 119) @@ (0 :> 3) @@ (256 :> 9) @@
    (32 :> 248) @@ (33 :> 255) @@ Zeroed

\* JMP (q) at 0x0200, the pointer q in WRAM or in PRG-ROM
JmpTests ==
    {Test(512, <<108, q % 256, q \div 256>>, 17, 34, 51, p, PointerCells, 0) :
        q \in {768, 1023, 16, 255, 33023}, p \in {36, 231}}

\* Stores through the indexed modes, the index 0, 1 or 255:
\*   STA zp,X (0x95) and STX zp,Y (0x96);
\*   STA abs,X (0x9D) and STA abs,Y (0x99), base and index summing into WRAM;
\*   STA (zp,X) (0x81), the pointer at 0x10, 0xFF or 0x00;
\*   STA (zp),Y (0x91), the pointer plus Y inside WRAM.
AddressingTests ==
    LET IndexValues == {0, 1, 255}
        AbsolutePairs ==
            {q \in {784, 65535} \X IndexValues : (q[1] + q[2]) % 65536 < 8192}
        IndirectXPairs ==
            {q \in {0, 15, 16, 17, 255} \X IndexValues :
                (q[1] + q[2]) % 256 \in {16, 255, 0}}
        IndirectYPairs ==
            {q \in {16, 255, 0, 32} \X IndexValues :
                (Get(PointerCells, q[1]) + 256 * Get(PointerCells, (q[1] + 1) % 256)
                 + q[2]) % 65536 < 8192}
    IN  {Test(512, <<149, b>>, 90, x, 0, 36, PointerCells, 0) :
            b \in {16, 255}, x \in IndexValues}
        \cup {Test(512, <<150, b>>, 90, 165, y, 36, PointerCells, 0) :
            b \in {16, 255}, y \in IndexValues}
        \cup {Test(512, <<157, q[1] % 256, q[1] \div 256>>, 90, q[2], 0, 36,
                   PointerCells, 0) : q \in AbsolutePairs}
        \cup {Test(512, <<153, q[1] % 256, q[1] \div 256>>, 90, 0, q[2], 36,
                   PointerCells, 0) : q \in AbsolutePairs}
        \cup {Test(512, <<129, q[1]>>, 90, q[2], 0, 36, PointerCells, 0) :
                   q \in IndirectXPairs}
        \cup {Test(512, <<145, q[1]>>, 90, 0, q[2], 36, PointerCells, 0) :
                   q \in IndirectYPairs}

\* NOP at 0x0200 with NMI generation enabled: the NMI is serviced before the
\* NOP; Y = 0 lets the handler disable NMI generation.  The status bytes have
\* I clear or set.
NmiTests ==
    {Test(512, <<234>>, 17, 34, 0, p, Zeroed, 128) : p \in {32, 36, 227, 231}}

InsnTests ==
    AdcTests \cup SbcTests \cup BranchTests \cup JmpTests \cup AddressingTests \cup NmiTests

\* The machine a test starts the loop from.
Setup(c, t) ==
    LET m0 == CpuNew(c)
        m1 == [m0 EXCEPT
                  !.register = [a |-> t.a, x |-> t.x, y |-> t.y, p |-> t.p,
                                sp |-> DEFAULT_SP, pc |-> t.org],
                  !.bus.wram = [i \in t.org..(t.org + Len(t.prog) - 1) |->
                                    t.prog[i - t.org + 1]] @@ t.mem]
    IN  IF t.ctl = 0 THEN m1 ELSE BusWrite(m1, 8192, t.ctl)

InsnCart ==
    [len |-> 32768, chr |-> 8192, mirroring |-> "Horizontal",
     sp0 |-> 253, ctl |-> 0, handler |-> "stack"]

InitInsn ==
    /\ cart = InsnCart
    /\ build \in {"debug", "release"}
    /\ \E t \in InsnTests :
           /\ register = Setup(cart, t).register
           /\ bus = Setup(cart, t).bus
    /\ fatal = "none"
    /\ elapsed = 0
    /\ frames = 0
    /\ callbacks = 0
    /\ at = 1
    /\ ret = << >>
    /\ step = StepNew
    /\ call = NoCall

SpecInsn == InitInsn /\ [][Next]_vars

----------------------------------------------------------------------------
(* The bus driven directly through cpu.bus, one call at a time.            *)

InitBus ==
    /\ Init
    /\ cart = [len |-> 32768, chr |-> 8192, mirroring |-> "Horizontal",
               sp0 |-> 253, ctl |-> 0, handler |-> "stop"]

\* 1 when tick(n) is computed with a wrapped multiplication.
Wraps(n) == IF Mul3Overflows(n) /\ build = "release" THEN 1 ELSE 0

\* cpu.bus.tick(n)
Tick(n) ==
    /\ fatal = "none"
    /\ bus.cycles + n <= MaxBusCycles
    /\ step.wraps + Wraps(n) <= MaxWraps
    /\ LET Finish(m) ==
               /\ Commit(m)
               /\ step' = [step EXCEPT !.wraps = @ + Wraps(n),
                                       !.raised = @ + Raised(bus.ppu, m.bus.ppu)]
       IN  Finish(BusTick(M, n))
    /\ ret' = << >>
    /\ call' = NoCall
    /\ UNCHANGED <<cart, build, at>>

\* cpu.bus.write_memory_byte(0x2000, v); call.result tells whether the write
\* raised the NMI latch.
WriteControl(v) ==
    /\ fatal = "none"
    /\ LET Finish(m) ==
               /\ Commit(m)
               /\ step' = [step EXCEPT !.raised = @ + Raised(bus.ppu, m.bus.ppu)]
               /\ call' = [op |-> "write_memory_byte", address |-> 8192, value |-> v,
                           result |-> Raised(bus.ppu, m.bus.ppu), n |-> 0]
       IN  Finish(BusWrite(M, 8192, v))
    /\ ret' = << >>
    /\ UNCHANGED <<cart, build, at>>

\* cpu.bus.poll_nmi_status()
PollNmi ==
    /\ fatal = "none"
    /\ ret' = <<BusPollNmiStatus(M)>>
    /\ call' = NoCall
    /\ UNCHANGED <<register, bus, fatal, elapsed, frames, callbacks, cart, build, at, step>>

NextBus ==
    \/ \E n \in TickArgs : Tick(n)
    \/ \E v \in ControlArgs : WriteControl(v)
    \/ PollNmi

SpecBus == InitBus /\ [][NextBus]_vars

----------------------------------------------------------------------------
(* The execution loop with a host whose callback may reset the CPU.        *)

\* run_with_callback: `callback(self)` with a callback that calls cpu.reset().
HostReset ==
    /\ Running
    /\ Here("callback")
    /\ call.n < MaxResets
    /\ Commit(CpuReset(M))
    /\ call' = [op |-> "reset", address |-> 0, value |-> 0, result |-> 0, n |-> call.n + 1]
    /\ step' = [step EXCEPT !.called = TRUE, !.seen = CpuReset(M).register, !.pre = M]
    /\ Advance
    /\ ret' = << >>
    /\ UNCHANGED <<cart, build>>

NextReset == Next \/ HostReset

InitReset ==
    /\ Init
    /\ cart.len = 16384
    /\ cart.sp0 = 2
    /\ cart.handler = "count"

SpecReset == InitReset /\ [][NextReset]_vars

----------------------------------------------------------------------------
(* The memory map driven directly through cpu.bus: byte and word reads     *)
(* and writes at addresses of every region.                                *)

\* Addresses the host reads bytes from, reads words from, writes bytes to
\* and writes words to, and the values it writes.
ReadAddrs == {2047, 8191, 8192, 8194, 8199, 8202, 16383, 32768, 49152, 65532}

ReadWordAddrs == {2047, 8191, 8199, 49148, 65532}

WriteAddrs == {2047, 8191, 8194, 8198, 8199, 8206, 32768}

WriteWordAddrs == {2047, 32768, 65535}

WriteBytes == {33}

WriteWords == {8481}

\* The pages the host names in a write to 0x4014.
DmaPages == {7}

InitMem ==
    /\ Init
    /\ cart.sp0 = 253
    /\ cart.ctl = 0
    /\ cart.handler = "stop"

\* The call made in this step.
Called(op, address, value, result) ==
    /\ call' = [op |-> op, address |-> address, value |-> value, result |-> result,
                n |-> call.n + 1]
    /\ step' = [step EXCEPT !.pre = M]
    /\ ret' = << >>
    /\ UNCHANGED <<cart, build, at>>

CanCall == fatal = "none" /\ call.n < MaxCalls

\* cpu.bus.read_memory_byte(a)
ReadByte(a) ==
    /\ CanCall
    /\ LET Finish(r) == Commit(r.m) /\ Called("read_memory_byte", a, 0, r.v)
       IN  Finish(BusRead(M, a))

\* cpu.bus.read_memory_word(a)
ReadWord(a) ==
    /\ CanCall
    /\ Commit(M)
    /\ Called("read_memory_word", a, 0, BusReadWord(M, a))

\* cpu.bus.write_memory_byte(a, v)
WriteByte(a, v) ==
    /\ CanCall
    /\ Commit(BusWrite(M, a, v))
    /\ Called("write_memory_byte", a, v, 0)

\* cpu.bus.write_memory_word(a, w)
WriteWord(a, w) ==
    /\ CanCall
    /\ Commit(BusWriteWord(M, a, w))
    /\ Called("write_memory_word", a, w, 0)

NextMem ==
    \/ \E a \in ReadAddrs : ReadByte(a)
    \/ \E a \in ReadWordAddrs : ReadWord(a)
    \/ \E a \in WriteAddrs, v \in WriteBytes : WriteByte(a, v)
    \/ \E a \in WriteWordAddrs, w \in WriteWords : WriteWord(a, w)
    \/ \E v \in DmaPages : WriteByte(16404, v)

SpecMem == InitMem /\ [][NextMem]_vars

----------------------------------------------------------------------------
(* The PPU address and data ports driven directly through cpu.bus, for     *)
(* cartridges of every mirroring mode.                                     *)

\* rom::Mirroring
Mirrorings == {"Horizontal", "Vertical", "FourScreen"}

\* The PPU addresses the host selects: pattern table, offset 0x300 of each of
\* the four logical name tables, the 0x3000 mirror, and palette cells.
PortAddrs == {5, 8960, 9984, 11008, 12032, 13056, 16128, 16144, 16160}

PortBytes == {33}

InitPort ==
    /\ cart \in [len : {32768}, chr : {8192}, mirroring : Mirrorings,
                  sp0 : {253}, ctl : {0}, handler : {"stop"}]
    /\ build \in {"debug", "release"}
    /\ register = CpuNew(cart).register
    /\ bus = CpuNew(cart).bus
    /\ fatal = "none"
    /\ elapsed = 0
    /\ frames = 0
    /\ callbacks = 0
    /\ at = 1
    /\ ret = << >>
    /\ step = StepNew
    /\ call = NoCall

CanPort == fatal = "none" /\ call.n < MaxPortCalls

\* The PPU address a selected through 0x2006, high byte first.
WithPpuAddress(m, a) == BusWrite(BusWrite(m, 8198, a \div 256), 8198, a % 256)

\* The byte a host gets from PPU address a: select a and read 0x2007, once
\* for a palette address and twice (the first read returns the buffer) below.
PortPeek(m, a) ==
    LET Second(r) == IF a >= 16128 THEN r ELSE BusRead(r.m, 8199)
    IN  Second(BusRead(WithPpuAddress(m, a), 8199))

\* cpu.bus.write_memory_byte(0x2006, a >> 8); cpu.bus.write_memory_byte(0x2006, a & 0xff)
SetAddress(a) ==
    /\ CanPort
    /\ Commit(WithPpuAddress(M, a))
    /\ Called("set_address", a, 0, 0)

\* cpu.bus.write_memory_byte(0x2007, v)
WriteDataPort(v) ==
    /\ CanPort
    /\ Commit(BusWrite(M, 8199, v))
    /\ Called("write_memory_byte", 8199, v, 0)

\* cpu.bus.read_memory_byte(0x2007)
ReadDataPort ==
    /\ CanPort
    /\ LET Finish(r) == Commit(r.m) /\ Called("read_memory_byte", 8199, 0, r.v)
       IN  Finish(BusRead(M, 8199))

NextPort ==
    \/ \E a \in PortAddrs : SetAddress(a)
    \/ \E v \in PortBytes : WriteDataPort(v)
    \/ ReadDataPort

SpecPort == InitPort /\ [][NextPort]_vars

----------------------------------------------------------------------------
(* The PPU address register driven through 0x2000, 0x2006 and 0x2007.      *)

\* Addresses selected with two writes: before a carry out of the low byte,
\* with the high byte above 0x3F (the last address, 0x3FFF), in the pattern
\* tables, and before the palette.
AddrArgs == {9215, 32767, 5, 16112}

InitAddr ==
    /\ InitPort
    /\ cart.mirroring = "Horizontal"

\* cpu.bus.write_memory_byte(0x2006, v)
WriteAddressPort(v) ==
    /\ CanPort
    /\ Commit(BusWrite(M, 8198, v))
    /\ Called("write_memory_byte", 8198, v, 0)

\* cpu.bus.write_memory_byte(0x2000, v)
WriteControlPort(v) ==
    /\ CanPort
    /\ Commit(BusWrite(M, 8192, v))
    /\ Called("write_memory_byte", 8192, v, 0)

\* A single byte to 0x2006 leaves the latch at 'low'; the control bytes select
\* stride 1 and stride 32.
NextAddr ==
    \/ \E a \in AddrArgs : SetAddress(a)
    \/ \E v \in {255} : WriteAddressPort(v)
    \/ \E v \in {0, 4} : WriteControlPort(v)
    \/ \E v \in PortBytes : WriteDataPort(v)
    \/ ReadDataPort

SpecAddr == InitAddr /\ [][NextAddr]_vars

----------------------------------------------------------------------------
(* The unofficial instructions ANC and AXS, applied as the match arms of   *)
(* run_with_callback apply them: the opcode has been fetched and PC is at  *)
(* the immediate operand.                                                  *)

\* The operand m at 0x0201; X is a low nibble, the sign bit or all ones.
UnofficialTests ==
    {Test(513, <<m>>, a, x, 0, p, Zeroed, 0) :
        a \in AluBytes, x \in {15, 128, 255}, m \in AluBytes, p \in AluFlags}

InitUnofficial ==
    /\ cart = InsnCart
    /\ build \in {"debug", "release"}
    /\ \E t \in UnofficialTests :
           /\ register = Setup(cart, t).register
           /\ bus = Setup(cart, t).bus
    /\ fatal = "none"
    /\ elapsed = 0
    /\ frames = 0
    /\ callbacks = 0
    /\ at = 1
    /\ ret = << >>
    /\ step = StepNew
    /\ call = NoCall

\* Instruction::ANC => self.anc(&opcode.addressing_mode)
RunAnc ==
    /\ call.n = 0
    /\ Commit(Anc(M, "Immediate"))
    /\ Called("anc", register.pc, 0, 0)

\* Instruction::AXS => self.axs(&opcode.addressing_mode)
RunAxs ==
    /\ call.n = 0
    /\ Commit(Axs(M, "Immediate"))
    /\ Called("axs", register.pc, 0, 0)

NextUnofficial == RunAnc \/ RunAxs

SpecUnofficial == InitUnofficial /\ [][NextUnofficial]_vars

----------------------------------------------------------------------------
(* Properties.                                                             *)

\* C1: poll_nmi_status returns true exactly when the PPU's NMI latch is set,
\* and it consumes the latch, so the latch is clear after every poll.
C1_PollReturnsAndConsumesLatch ==
    [][ret' # << >> =>
          /\ ret'[1] = bus.ppu.nmi_interrupt
          /\ ~bus'.ppu.nmi_interrupt]_vars

\* C2: each raising of the NMI latch causes at most one NMI service: no more
\* NMIs have been serviced than the latch was raised, and the latch is clear
\* once an NMI has been serviced.
C2_OneServicePerLatchRaise ==
    /\ step.nmis <= step.raised
    /\ step.serviced /\ fatal = "none" => ~bus.ppu.nmi_interrupt

\* C3: a tick that enters scanline 241 sets status.vblank and raises the NMI
\* latch if and only if control.generate_nmi is set; a tick that does not
\* enter scanline 241 never raises the latch.
C3_VblankStartRaisesNmi ==
    [][IF bus.ppu.scanline # 241 /\ bus'.ppu.scanline = 241
       THEN /\ bus'.ppu.vertical_blank
            /\ bus'.ppu.nmi_interrupt <=> bus.ppu.ppu_control.generate_nmi
       ELSE elapsed' # elapsed => Raised(bus.ppu, bus'.ppu) = 0]_vars

\* C3 witness: scanline 241 has been entered with NMI generation enabled and
\* the latch is up.
C3_Witness ==
    /\ bus.ppu.scanline = 241
    /\ bus.ppu.vertical_blank
    /\ bus.ppu.ppu_control.generate_nmi
    /\ bus.ppu.nmi_interrupt
    /\ step.raised = 1

\* C4: the tick that completes scanline 261 signals "frame complete", returns
\* the scanline to 0 and clears status.vblank and the NMI latch; the signal is
\* given once every 341 * 262 = 89342 PPU cycles and by no other tick.
C4_FrameEnd ==
    [][/\ frames' = elapsed' \div (341 * 262)
       /\ frames' # frames =>
            /\ frames' = frames + 1
            /\ bus'.ppu.scanline = 0
            /\ ~bus'.ppu.vertical_blank
            /\ ~bus'.ppu.nmi_interrupt]_vars

\* C4 witness: a frame has been completed after the NMI latch had been raised.
C4_Witness == frames = 1 /\ step.raised >= 1 /\ bus.ppu.scanline = 0

\* C5: Bus.tick invokes the frame callback once for every frame the PPU
\* completes, inside the tick that completed it.
C5_CallbackPerFrame == callbacks = frames

\* C6: the PPU cursor always satisfies dot < 341 and scanline < 262.
C6_CursorInRange == bus.ppu.cycles < 341 /\ bus.ppu.scanline < 262

\* C6 witness: the cursor on the last scanline, so close to its end that a
\* further tick of 255 PPU cycles leaves the frame.
C6_Witness == bus.ppu.scanline = 261 /\ bus.ppu.cycles + 255 >= 341

\* C7: tick(n) adds n to the bus cycle count and 3n PPU cycles to the PPU, so
\* the PPU cycles elapsed are always 3 times the bus cycle count.
C7_ThreePpuCyclesPerCpuCycle == elapsed = 3 * bus.cycles

\* C8: after each executed instruction the bus cycle counter equals the sum of
\* the opcode-table base cycles of the instructions executed so far.
C8_CyclesAreBaseCycles ==
    Here("poll") /\ fatal = "none" => bus.cycles = step.base

\* C8 as amended: the bus cycle counter equals the sum of the base cycles of
\* the instructions executed so far plus 2 for every NMI serviced so far.
C8_CyclesAreBasePlusNmi ==
    fatal = "none" => bus.cycles = step.base + 2 * step.nmis

\* C8 witness: instructions have been executed before and after an NMI service.
C8_Witness ==
    /\ Here("poll")
    /\ fatal = "none"
    /\ step.nmis = 1
    /\ step.executed >= 7

C10_NmiService ==
    ret = <<TRUE>> =>
        LET k == step.pre.register.sp
            p == step.pre.register.pc
            s == step.pre.register.p
        IN  /\ fatal = "none"
            /\ Get(bus.wram, 256 + k) = p \div 256
            /\ Get(bus.wram, 256 + ((k + 255) % 256)) = p % 256
            /\ Get(bus.wram, 256 + ((k + 254) % 256)) = BitOr(BitClear(s, 16), 32)
            /\ register.sp = (k + 253) % 256
            /\ register.p = BitOr(s, 4)
            /\ bus.cycles = step.pre.bus.cycles + 2
            /\ register.pc = HandlerBase

\* C11: a write to the PPU control register raises the NMI latch if and only
\* if it turns the NMI-enable bit from 0 to 1 while status.vblank is set; any
\* other control write leaves the latch as it was.
C11_ControlWriteRaisesNmi ==
    [][call'.op = "write_memory_byte" /\ call'.address = 8192 =>
          LET rising == /\ ~bus.ppu.ppu_control.generate_nmi
                        /\ call'.value \div 128 = 1
                        /\ bus.ppu.vertical_blank
          IN  /\ bus'.ppu.ppu_control.generate_nmi <=> call'.value \div 128 = 1
              /\ bus'.ppu.nmi_interrupt <=> (bus.ppu.nmi_interrupt \/ rising)]_vars

\* C11 witness: a control write during vblank has just raised the latch.
C11_Witness ==
    /\ call.op = "write_memory_byte"
    /\ call.address = 8192
    /\ call.result = 1
    /\ bus.ppu.vertical_blank
    /\ bus.ppu.nmi_interrupt

\* C12: a read of the PPU status register, 0x2002 or a mirror of it, returns
\* the status byte (bit 7 = vblank) and leaves status.vblank clear and the
\* address write latch reset to the high byte.
C12_StatusRead ==
    call.op = "read_memory_byte" /\ call.address \in {8194, 8202} =>
        /\ fatal = "none"
        /\ call.result = (IF step.pre.bus.ppu.vertical_blank THEN 128 ELSE 0)
        /\ ~bus.ppu.vertical_blank
        /\ bus.ppu.ppu_address.hi_ptr

\* C13: after a byte v has been written to an address a of 0x0000-0x1FFF,
\* reading any a' of 0x0000-0x1FFF with a' mod 0x0800 = a mod 0x0800 yields v;
\* and a byte read in that range returns the cell of its address mod 0x0800.
C13_WramMirrors ==
    /\ call.op = "write_memory_byte" /\ call.address <= 8191 =>
          \A a \in 0..3 :
              BusRead(M, (call.address % 2048) + 2048 * a).v = call.value
    /\ call.op = "read_memory_byte" /\ call.address <= 8191 =>
          /\ call.result = Get(bus.wram, call.address % 2048)
          /\ \A a \in 0..3 :
                 BusRead(M, (call.address % 2048) + 2048 * a).v = call.result

\* C13 witness: the byte written through the last mirror, 0x1FFF, is read
\* back at 0x07FF.
C13_Witness ==
    /\ call.op = "write_memory_byte"
    /\ call.address = 8191
    /\ call.value = 33
    /\ BusRead(M, 2047).v = 33

\* C14: a byte read or write at an address a of 0x2000-0x3FFF returns what
\* the same access at 0x2000 + (a mod 8) returns and leaves the machine as
\* that access leaves it.
C14_PpuWindowMirrors ==
    LET a == call.address
        base == 8192 + (a % 8)
    IN  /\ call.op = "read_memory_byte" /\ a >= 8192 /\ a <= 16383 =>
              /\ call.result = BusRead(step.pre, base).v
              /\ M = BusRead(step.pre, base).m
        /\ call.op = "write_memory_byte" /\ a >= 8192 /\ a <= 16383 =>
              M = BusWrite(step.pre, base, call.value)

\* C14 witness: a write at 0x200E has acted on the PPU address register.
C14_Witness ==
    /\ call.op = "write_memory_byte"
    /\ call.address = 8206
    /\ fatal = "none"
    /\ ~bus.ppu.ppu_address.hi_ptr
    /\ bus.ppu.ppu_address.value_high = 33

\* C15: with a 16 KiB program ROM a byte read at an address a of
\* 0xC000-0xFFFF returns what a byte read at a - 0x4000 returns; with a
\* 32 KiB program ROM it returns program byte a - 0x8000.
C15_ProgramRomMirror ==
    call.op = "read_memory_byte" /\ call.address >= 49152 =>
        /\ fatal = "none"
        /\ cart.len = 16384 => call.result = BusRead(M, call.address - 16384).v
        /\ cart.len = 32768 =>
              call.result = Get(ProgramImage(cart), call.address - 32768)

\* C15 witness: the first program byte has been read at 0xC000 of a 16 KiB ROM.
C15_Witness ==
    /\ call.op = "read_memory_byte"
    /\ call.address = 49152
    /\ cart.len = 16384
    /\ call.result = 162

\* C16: read_word(a) is read_byte(a) + 256 * read_byte(a + 1) for every
\* address a of 0x0000-0xFFFE, in every region of the memory map.
C16_WordIsTwoBytes ==
    call.op = "read_memory_word" =>
        call.result = BusRead(step.pre, call.address).v
                      + 256 * BusRead(BusRead(step.pre, call.address).m,
                                      call.address + 1).v

\* C17: every write, byte or word, at an address of 0x8000-0xFFFF is fatal and
\* changes nothing of WRAM, PPU or program ROM.
C17_RomWriteFatal ==
    call.op \in {"write_memory_byte", "write_memory_word"} /\ call.address >= 32768 =>
        /\ fatal # "none"
        /\ bus = step.pre.bus

\* C18: a read of a write-only PPU register is not fatal, returns 0 and
\* changes nothing; a write to the read-only status register is ignored.
C18_WrongDirectionIgnored ==
    LET a == call.address
        inWindow == a >= 8192 /\ a <= 16383
    IN  /\ call.op = "read_memory_byte" /\ inWindow /\ a % 8 \in {0, 1, 3, 5, 6} =>
              /\ fatal = "none"
              /\ call.result = 0
              /\ bus = step.pre.bus
        /\ call.op = "write_memory_byte" /\ inWindow /\ a % 8 = 2 =>
              /\ fatal = "none"
              /\ bus = step.pre.bus

\* C19: constructing the CPU and resetting it both yield A = X = Y = 0,
\* SP = 0xFD, P = 0x24 and PC = the little-endian word at 0xFFFC/0xFFFD,
\* whatever the registers held before the reset.
C19_ResetState ==
    /\ register = [a |-> 0, x |-> 0, y |-> 0, sp |-> 253, p |-> 36,
                   pc |-> BusRead(M, 65532).v + 256 * BusRead(M, 65533).v]
    /\ [][call'.n # call.n =>
             /\ register' = [a |-> 0, x |-> 0, y |-> 0, sp |-> 253, p |-> 36,
                             pc |-> BusRead(M, 65532).v + 256 * BusRead(M, 65533).v]
             /\ bus' = bus
             /\ fatal' = fatal]_vars

\* C19 witness: a reset has just replaced registers that the program had
\* changed: X, SP and PC all differed from their reset values.
C19_Witness ==
    /\ call.op = "reset"
    /\ Here("fetch")
    /\ register.pc = 32768
    /\ register.sp = 253
    /\ step.pre.register.x # 0
    /\ step.pre.register.sp # 253
    /\ step.pre.register.pc # 32768

\* C20: from the reset state on, after any instructions and NMI services,
\* the live status register P has bit 5 (R) set and bit 4 (B) clear.
C20_BreakNeverLive == Bit(register.p, 5) = 1 /\ Bit(register.p, 4) = 0

\* C20 witness: RTI has just pulled the status byte 0x10 (B set, R clear)
\* that the handler had pushed, after PLP had pulled 0xFF.
C20_Witness ==
    /\ cart.handler = "flags"
    /\ fatal = "none"
    /\ Here("poll")
    /\ register.pc = 32778
    /\ step.nmis >= 1
    /\ Get(bus.wram, 256 + ((register.sp + 254) % 256)) = 16
    /\ register.p = 32

\* C21: PHP pushes P | 0x30 and leaves P unchanged; PLP sets P to the popped
\* byte with bit 4 cleared and bit 5 set; PHP followed by PLP restores every
\* bit of P other than B and restores SP.
C21_PhpPlpRoundTrip ==
    [][Here("fetch") =>
          /\ Fetched = 8 =>
                /\ fatal' = "none"
                /\ Get(bus'.wram, 256 + register.sp) = BitOr(register.p, 48)
                /\ register'.p = register.p
                /\ register'.sp = (register.sp + 255) % 256
          /\ Fetched = 40 =>
                /\ fatal' = "none"
                /\ register'.p =
                      BitOr(BitClear(Get(bus.wram, 256 + ((register.sp + 1) % 256)), 16), 32)
                /\ register'.sp = (register.sp + 1) % 256
          /\ Fetched = 40 /\ step.last.code = 8 =>
                /\ BitClear(register'.p, 16) = BitClear(step.last.register.p, 16)
                /\ register'.sp = step.last.register.sp]_vars

\* C22: JSR whose opcode is at p pushes the word p + 2 (high byte first, in
\* the stack page), decreases SP by 2 and sets PC to its operand; RTS pops a
\* word w, increases SP by 2 and sets PC to w + 1; a JSR followed by an RTS
\* resumes at p + 3 with SP restored.
C22_JsrRtsRoundTrip ==
    [][Here("fetch") =>
          /\ Fetched = 32 =>
                /\ fatal' = "none"
                /\ Get(bus'.wram, 256 + register.sp) = (register.pc + 2) \div 256
                /\ Get(bus'.wram, 256 + ((register.sp + 255) % 256)) = (register.pc + 2) % 256
                /\ register'.sp = (register.sp + 254) % 256
                /\ register'.pc = BusRead(M, register.pc + 1).v
                                  + 256 * BusRead(M, register.pc + 2).v
          /\ Fetched = 96 =>
                /\ fatal' = "none"
                /\ register'.sp = (register.sp + 2) % 256
                /\ register'.pc = Get(bus.wram, 256 + ((register.sp + 1) % 256))
                                  + 256 * Get(bus.wram, 256 + ((register.sp + 2) % 256)) + 1
          /\ Fetched = 96 /\ step.last.code = 32 =>
                /\ register'.pc = step.last.register.pc + 3
                /\ register'.sp = step.last.register.sp]_vars

\* C23: for every value of SP, a stack push or pop (PHP, PLP, PHA, PLA, JSR,
\* RTS, RTI and the NMI service) is not fatal, writes only addresses of
\* 0x0100-0x01FF and moves SP modulo 256; the word push of JSR leaves memory
\* as pushing the high byte and then the low byte leaves it.
C23_StackWrapsInPage ==
    [][/\ (Here("fetch") /\ Fetched \in {8, 32, 40, 64, 72, 96, 104})
          \/ (Here("poll") /\ BusPollNmiStatus(M)) =>
              /\ fatal' = "none"
              /\ \A i \in DOMAIN bus'.wram :
                     i \notin 256..511 => bus'.wram[i] = Get(bus.wram, i)
       /\ Here("fetch") /\ Fetched \in {8, 72} =>
              register'.sp = (register.sp + 255) % 256
       /\ Here("fetch") /\ Fetched \in {40, 104} =>
              register'.sp = (register.sp + 1) % 256
       /\ Here("fetch") /\ Fetched = 32 =>
              /\ register'.sp = (register.sp + 254) % 256
              /\ Get(bus'.wram, 256 + register.sp) = (register.pc + 2) \div 256
              /\ Get(bus'.wram, 256 + ((register.sp + 255) % 256)) = (register.pc + 2) % 256
       /\ Here("fetch") /\ Fetched = 96 =>
              register'.sp = (register.sp + 2) % 256
       /\ Here("fetch") /\ Fetched = 64 =>
              register'.sp = (register.sp + 3) % 256]_vars

\* C24: executing BRK ends the execution loop: the loop returns, nothing is
\* executed after it, and A, X, Y, SP, P and the bus (memory, PPU, cycle
\* count) are as they were before the BRK was fetched.
C24_BrkReturns ==
    [][/\ at # 0
       /\ Here("fetch") /\ Fetched = 0 =>
              /\ at' = 0
              /\ fatal' = "none"
              /\ register' = [register EXCEPT !.pc = register.pc + 1]
              /\ bus' = bus
       /\ at' = 0 => Here("fetch") /\ Fetched = 0]_vars

\* C24 witness: the loop has returned on the BRK of the NMI handler, with the
\* registers the main program and the NMI service had set.
C24_Witness ==
    /\ at = 0
    /\ fatal = "none"
    /\ step.last.code = 0
    /\ register.pc = HandlerBase + 1
    /\ register.x = 4
    /\ register.a = 128
    /\ register.sp = 1
    /\ step.nmis = 1

\* C25: fetching a byte that has no entry in the opcode table ends the program
\* with a fatal error naming the byte; A, X, Y, P, SP and the bus (memory,
\* PPU, cycle count) stay as they were, and nothing runs afterwards.
C25_UnknownOpcodeFatal ==
    [][/\ fatal = "none"
       /\ Here("fetch") /\ Fetched \notin DOMAIN OpcodeTable =>
              /\ fatal' \notin {"none", "overflow"}
              /\ Fetched = 2 => fatal' = "2 is not recognized"
              /\ register' = [register EXCEPT !.pc = register.pc + 1]
              /\ bus' = bus
              /\ at' # 0]_vars

\* C25 witness: the byte 0x02 of the NMI handler has been fetched after the
\* main program and the NMI service had set A, X and SP.
C25_Witness ==
    /\ fatal = "2 is not recognized"
    /\ step.last.code = 2
    /\ register.pc = HandlerBase + 1
    /\ register.x = 3
    /\ register.a = 128
    /\ register.sp = 0
    /\ bus.cycles = 14

\* C26: a write of v to 0x4014 copies the 256 bytes at CPU addresses
\* v * 256 .. v * 256 + 255 into OAM memory and advances the bus cycle
\* count by 513.
C26_OamDma ==
    call.op = "write_memory_byte" /\ call.address = 16404 =>
        /\ fatal = "none"
        /\ bus.cycles = step.pre.bus.cycles + 513
        /\ \A i \in 0..255 :
               Get(bus.ppu.oam_data, i) = BusRead(step.pre, call.value * 256 + i).v

\* C27: no sequence of bus accesses changes a byte of character ROM (all
\* zero as loaded) or of program ROM, writes through the data port with the
\* PPU address in 0x0000-0x1FFF included.
C27_CartridgeImmutable ==
    /\ \A i \in DOMAIN bus.ppu.charactor_rom : bus.ppu.charactor_rom[i] = 0
    /\ \A a \in {32768, 65532, 65533} :
           BusRead(M, a).v = Get(ProgramImage(cart), a - 32768)
    /\ fatal = "none" => PortPeek(M, 5).v = 0

\* C28: a read of the data port with the PPU address a below 0x3F00 returns
\* the previous contents of the read buffer and refills the buffer with the
\* byte at a; with a in 0x3F00-0x3FFF it returns the palette byte and refills
\* the buffer from the name-table byte underneath (a - 0x1000).
C28_BufferedRead ==
    call.op = "read_memory_byte" /\ call.address = 8199 =>
        LET pre == step.pre.bus.ppu
            a == AddressGet(pre.ppu_address)
        IN  /\ fatal = "none"
            /\ a < 8192 =>
                  /\ call.result = pre.internal_data_buf
                  /\ bus.ppu.internal_data_buf = Get(pre.charactor_rom, a)
            /\ a >= 8192 /\ a < 16128 =>
                  /\ call.result = pre.internal_data_buf
                  /\ bus.ppu.internal_data_buf = Get(pre.vram, MirrorVramAddress(pre, a))
            /\ a >= 16128 =>
                  /\ call.result = Get(pre.palette_table, a % 32)
                  /\ bus.ppu.internal_data_buf =
                        Get(pre.vram, MirrorVramAddress(pre, a - 4096))

\* C29: a data-port write succeeds at every 14-bit address, and the byte
\* written at a is the byte read at every address mirroring a: a + 0x1000 or
\* a - 0x1000 for a name-table address, and for a palette address every
\* address with the same a mod 0x20, with cells 0x10, 0x14, 0x18, 0x1C the
\* same as 0x00, 0x04, 0x08, 0x0C.
C29_DataPortMirrors ==
    call.op = "write_memory_byte" /\ call.address = 8199 =>
        LET a == AddressGet(step.pre.bus.ppu.ppu_address)
            Same(b) == /\ PortPeek(M, b).m.fatal = "none"
                       /\ PortPeek(M, b).v = call.value
        IN  /\ fatal = "none"
            /\ Same(a)
            /\ a >= 8192 /\ a < 12032 => Same(a + 4096)
            /\ a >= 12288 /\ a < 16128 => Same(a - 4096)
            /\ a >= 16128 => Same(16128 + (a % 32)) /\ Same(16160 + (a % 32))
            /\ a >= 16128 /\ a % 4 = 0 => Same(16128 + ((a + 16) % 32))

\* C30: for every mirroring mode, a data-port access at a name-table address
\* a of 0x2000-0x3EFF uses a VRAM index below 0x800, so it is not out of
\* bounds; with Horizontal, a and the same offset in the table beside it
\* (a with bit 10 flipped) share an index and the table below (bit 11
\* flipped) has another; with Vertical it is the other way round.
C30_MirrorInBounds ==
    call.op \in {"write_memory_byte", "read_memory_byte"} /\ call.address = 8199 =>
        LET pre == step.pre.bus.ppu
            a == AddressGet(pre.ppu_address)
            beside == IF Bit(a, 10) = 1 THEN a - 1024 ELSE a + 1024
            below == IF Bit(a, 11) = 1 THEN a - 2048 ELSE a + 2048
            Index(b) == MirrorVramAddress(pre, b)
        IN  a >= 8192 /\ a < 16128 =>
               /\ Index(a) \in 0..2047
               /\ fatal # "index_out_of_bounds"
               /\ pre.mirroring = "Horizontal" =>
                     Index(a) = Index(beside) /\ Index(a) # Index(below)
               /\ pre.mirroring = "Vertical" =>
                     Index(a) = Index(below) /\ Index(a) # Index(beside)

\* C32: ADC leaves A = (A + M + C) mod 256, C = 1 iff A + M + C > 0xFF,
\* V = 1 iff ((A ^ result) & (M ^ result) & 0x80) # 0, Z = 1 iff result = 0,
\* N = bit 7 of the result, and changes no other register or flag.
C32_Adc ==
    [][Here("fetch") /\ Fetched = 105 =>
          LET A == register.a
              operand == BusRead(M, register.pc + 1).v
              sum == A + operand + Bit(register.p, 0)
              result == sum % 256
          IN  /\ fatal' = "none"
              /\ register'.a = result
              /\ Bit(register'.p, 0) = (IF sum > 255 THEN 1 ELSE 0)
              /\ Bit(register'.p, 6) =
                    (IF Bit(A, 7) # Bit(result, 7) /\ Bit(operand, 7) # Bit(result, 7)
                     THEN 1 ELSE 0)
              /\ Bit(register'.p, 1) = (IF result = 0 THEN 1 ELSE 0)
              /\ Bit(register'.p, 7) = Bit(result, 7)
              /\ \A i \in {2, 3, 4, 5} : Bit(register'.p, i) = Bit(register.p, i)
              /\ register'.x = register.x
              /\ register'.y = register.y
              /\ register'.sp = register.sp
              /\ register'.pc = register.pc + 2
              /\ bus'.wram = bus.wram]_vars

\* C32 witness: 0x7F + 0x01 + carry has overflowed into the sign bit: A = 0x81
\* with N and V set, Z and C cleared.
C32_Witness ==
    /\ step.last.code = 105
    /\ step.last.register.a = 127
    /\ step.last.register.p = 231
    /\ register.a = 129
    /\ register.p = 228
    /\ fatal = "none"

\* C33: SBC with operand M leaves what ADC leaves with operand M XOR 0xFF, for
\* every A, M and incoming carry (carry 0 included): the same A and the same
\* C, V, Z and N.
C33_SbcIsAdcOfComplement ==
    [][Here("fetch") /\ Fetched = 233 =>
          LET A == register.a
              complement == 255 - BusRead(M, register.pc + 1).v
              sum == A + complement + Bit(register.p, 0)
              result == sum % 256
          IN  /\ fatal' = "none"
              /\ register'.a = result
              /\ Bit(register'.p, 0) = (IF sum > 255 THEN 1 ELSE 0)
              /\ Bit(register'.p, 6) =
                    (IF Bit(A, 7) # Bit(result, 7) /\ Bit(complement, 7) # Bit(result, 7)
                     THEN 1 ELSE 0)
              /\ Bit(register'.p, 1) = (IF result = 0 THEN 1 ELSE 0)
              /\ Bit(register'.p, 7) = Bit(result, 7)]_vars

\* C33 witness: 0x00 - 0x01 with carry 0 (a borrow pending) has left 0xFE with
\* N set and C cleared (a further borrow).
C33_Witness ==
    /\ step.last.code = 233
    /\ step.last.register.a = 0
    /\ step.last.register.p = 36
    /\ BusRead(M, step.last.register.pc + 1).v = 1
    /\ register.a = 254
    /\ Bit(register.p, 0) = 0
    /\ Bit(register.p, 7) = 1
    /\ fatal = "none"

\* The condition of a branch opcode under status p, as the claim tabulates it.
C34_Taken(code, p) ==
    CASE code = 144 -> Bit(p, 0) = 0
      [] code = 176 -> Bit(p, 0) = 1
      [] code = 240 -> Bit(p, 1) = 1
      [] code = 208 -> Bit(p, 1) = 0
      [] code = 48  -> Bit(p, 7) = 1
      [] code = 16  -> Bit(p, 7) = 0
      [] code = 80  -> Bit(p, 6) = 0
      [] code = 112 -> Bit(p, 6) = 1

\* C34: a branch at address p with operand byte o leaves PC =
\* (p + 2 + signed(o)) mod 0x10000 if its condition holds and p + 2 otherwise,
\* and leaves A, X, Y, SP, P and memory unchanged.
C34_Branch ==
    [][Here("fetch") /\ Fetched \in BranchOpcodes =>
          LET o == BusRead(M, register.pc + 1).v
              signed == IF o >= 128 THEN o - 256 ELSE o
          IN  /\ fatal' = "none"
              /\ register'.pc = (IF C34_Taken(Fetched, register.p)
                                 THEN (register.pc + 2 + signed) % 65536
                                 ELSE register.pc + 2)
              /\ register'.a = register.a
              /\ register'.x = register.x
              /\ register'.y = register.y
              /\ register'.sp = register.sp
              /\ register'.p = register.p
              /\ bus'.wram = bus.wram]_vars

\* C35: JMP (indirect) with pointer operand q leaves PC = the byte at q plus
\* 256 times the byte at q + 1, except that for q = 0x..FF the high byte comes
\* from the start of the same page (q & 0xFF00); no other register changes.
C35_JmpIndirect ==
    [][Here("fetch") /\ Fetched = 108 =>
          LET q == BusRead(M, register.pc + 1).v + 256 * BusRead(M, register.pc + 2).v
              hi == IF q % 256 = 255 THEN q - 255 ELSE q + 1
          IN  /\ fatal' = "none"
              /\ register'.pc = BusRead(M, q).v + 256 * BusRead(M, hi).v
              /\ register'.a = register.a
              /\ register'.x = register.x
              /\ register'.y = register.y
              /\ register'.sp = register.sp
              /\ register'.p = register.p]_vars

\* C35 witness: JMP ($03FF) has taken the low byte 0x80 from 0x03FF and the
\* high byte 0x40 from 0x0300, not the 0x06 at 0x0400.
C35_Witness ==
    /\ step.last.code = 108
    /\ BusRead(M, step.last.register.pc + 1).v = 255
    /\ BusRead(M, step.last.register.pc + 2).v = 3
    /\ register.pc = 16512
    /\ fatal = "none"

\* The effective address the claim gives a store opcode, from the registers and
\* the operand bytes b1, b2.
C36_Effective(code, r, b1, b2) ==
    LET ptr(lo, hi) == BusRead(M, lo).v + 256 * BusRead(M, hi).v
    IN  CASE code = 149 -> (b1 + r.x) % 256
          [] code = 150 -> (b1 + r.y) % 256
          [] code = 157 -> (b1 + 256 * b2 + r.x) % 65536
          [] code = 153 -> (b1 + 256 * b2 + r.y) % 65536
          [] code = 129 -> ptr((b1 + r.x) % 256, (b1 + r.x + 1) % 256)
          [] code = 145 -> (ptr(b1, (b1 + 1) % 256) + r.y) % 65536

\* C36: a store through ZeroPage+X/Y goes to (operand + index) mod 256, through
\* Absolute+X/Y to (base + index) mod 0x10000, through Indirect+X to the pointer
\* read from (operand + X) mod 256 and (operand + X + 1) mod 256, and through
\* Indirect+Y to the pointer read from operand and (operand + 1) mod 256 plus Y
\* mod 0x10000: exactly that cell of memory takes the stored register.
C36_EffectiveAddress ==
    [][Here("fetch") /\ Fetched \in {149, 150, 157, 153, 129, 145} =>
          LET effective == C36_Effective(Fetched, register,
                                         BusRead(M, register.pc + 1).v,
                                         BusRead(M, register.pc + 2).v)
              stored == IF Fetched = 150 THEN register.x ELSE register.a
          IN  /\ fatal' = "none"
              /\ effective < 8192
              /\ \A i \in 0..2047 :
                    Get(bus'.wram, i) = (IF i = effective % 2048 THEN stored
                                         ELSE Get(bus.wram, i))]_vars

\* C36 witness: STA ($FF,X) with X = 0 has read its pointer from 0x00FF and
\* 0x0000 and stored A at 0x0377.
C36_Witness ==
    /\ step.last.code = 129
    /\ step.last.register.x = 0
    /\ BusRead(M, step.last.register.pc + 1).v = 255
    /\ Get(bus.wram, 887) = 90
    /\ fatal = "none"

\* C37: ANC leaves A = A & M, Z and N set from that result, and C equal to N
\* (bit 7 of the result).
C37_Anc ==
    call.op = "anc" =>
        LET result == BitAnd(step.pre.register.a, BusRead(step.pre, call.address).v)
        IN  /\ fatal = "none"
            /\ register.a = result
            /\ Bit(register.p, 1) = (IF result = 0 THEN 1 ELSE 0)
            /\ Bit(register.p, 7) = Bit(result, 7)
            /\ Bit(register.p, 0) = Bit(result, 7)

\* C38: AXS leaves X = ((A & X) - M) mod 256, C = 1 if (A & X) >= M and C = 0
\* otherwise, Z and N set from the new X, and A unchanged.
C38_Axs ==
    call.op = "axs" =>
        LET value == BusRead(step.pre, call.address).v
            x_and_a == BitAnd(step.pre.register.a, step.pre.register.x)
            result == (x_and_a + 256 - value) % 256
        IN  /\ fatal = "none"
            /\ register.x = result
            /\ Bit(register.p, 0) = (IF x_and_a >= value THEN 1 ELSE 0)
            /\ Bit(register.p, 1) = (IF result = 0 THEN 1 ELSE 0)
            /\ Bit(register.p, 7) = Bit(result, 7)
            /\ register.a = step.pre.register.a

\* C39: in every reachable PPU state, after any interleaving of ticks and
\* control-register writes, the NMI latch is set only while status.vblank is
\* set, on a scanline in 241..261.
C39_LatchOnlyInVblank ==
    bus.ppu.nmi_interrupt =>
        /\ bus.ppu.vertical_blank
        /\ bus.ppu.scanline \in VblankScanline..(ScanlinesPerFrame - 1)

\* C39 witness: a control write past the start of vertical blank has raised
\* the latch.
C39_Witness ==
    /\ call.op = "write_memory_byte"
    /\ call.address = 8192
    /\ call.result = 1
    /\ bus.ppu.nmi_interrupt
    /\ bus.ppu.vertical_blank
    /\ bus.ppu.scanline > VblankScanline

\* C40: if an NMI was serviced at PC = p, P = s and SP = k without the stack
\* pointer wrapping, and the handler executes RTI with the stack balanced
\* (SP = k - 3), the CPU resumes with PC = p, SP = k and P = s, the I flag as
\* it was before the interrupt.
C40_NmiRtiRoundTrip ==
    [][/\ Here("fetch")
       /\ Fetched = 64
       /\ step.nmis > 0
       /\ step.entry.sp >= 3
       /\ register.sp = step.entry.sp - 3
       => /\ fatal' = "none"
          /\ register'.pc = step.entry.pc
          /\ register'.sp = step.entry.sp
          /\ register'.p = step.entry.p]_vars

\* C40 witness: an NMI serviced at 0x0200 with I clear (P = 0x20) has been
\* returned from: the handler had changed P, and RTI has restored PC, SP and P.
C40_Witness ==
    /\ step.last.code = 64
    /\ step.nmis = 1
    /\ step.entry.p = 32
    /\ step.last.register.p # 32
    /\ register.p = 32
    /\ register.pc = 512
    /\ register.sp = 253
    /\ fatal = "none"

\* C31: after any sequence of writes to the PPU address register and accesses
\* of the PPU data register the internal address is at most 0x3FFF; two
\* address writes h then l that start with the latch at 'high' set it to
\* ((h & 0x3F) << 8) | l; each data access changes it to (old + stride) mod
\* 0x4000, stride 1 or 32 by control bit 2.
C31_PpuAddress ==
    [][LET old == AddressGet(bus.ppu.ppu_address)
           new == AddressGet(bus.ppu.ppu_address)'
           stride == IF bus.ppu.ppu_control.vram_add_increment THEN 32 ELSE 1
       IN  /\ new <= 16383
           /\ call'.op = "set_address" /\ bus.ppu.ppu_address.hi_ptr =>
                  new = BitAnd(call'.address \div 256, 63) * 256 + (call'.address % 256)
           /\ call'.op # "set_address" /\ call'.address = 8199 =>
                  new = (old + stride) % 16384]_vars

\* C31 witness: with stride 32 a data write at 0x23FF has carried into the
\* high byte and left the address at 0x241F.
C31_Witness ==
    /\ call.op = "write_memory_byte"
    /\ call.address = 8199
    /\ step.pre.bus.ppu.ppu_control.vram_add_increment
    /\ AddressGet(step.pre.bus.ppu.ppu_address) = 9215
    /\ AddressGet(bus.ppu.ppu_address) = 9247
    /\ fatal = "none"

====
